---- MODULE Spec2Model ----
(***************************************************************************)
(* A model of the Jira REST client (src/jira_client.py): its construction, *)
(* its request dispatch and error translation, and its operations, run      *)
(* against a Jira server that holds the worklogs of one issue.              *)
(***************************************************************************)
EXTENDS Integers, Sequences, FiniteSets, TLC

(***************************************************************************)
(* Bounds of the model and constants of the program.                        *)
(***************************************************************************)
\* The server holds up to MaxPages full pages of worklogs, plus one.
MaxPages == 2
\* Worklogs added to the issue in one run (by this client or by another user).
MaxAdds == 1
\* The page size of a server that caps its pages below the requested 100.
SmallCap == 50
\* update_worklog's hours are the rationals n/d, n in 0..MaxHoursNum, d in HoursDens.
MaxHoursNum == 3
\* A base URL ends in up to MaxUrlTail tokens, each a "/" or a path segment.
MaxUrlTail == 2
\* A comment document holds up to MaxBlocks blocks of up to MaxRuns items each.
MaxBlocks == 2
MaxRuns == 2
\* An issue of the app's user holds up to MaxIssueLogs worklogs.
MaxIssueLogs == 1
\* A question to the assistant holds up to MaxWords words.
MaxWords == 3
\* httpx follows up to MaxRedirects redirects of the upstream in the model.
MaxRedirects == 1
\* A string given to encode holds up to MaxStr characters, and a text given to
\* decode up to MaxRaw characters.
MaxStr == 3
MaxRaw == 5
\* maxResults of get_worklogs, and the step of its loop (the literal 100).
PageSize == 100
\* Seconds in an hour (the literal 3600 of update_worklog).
SecondsPerHour == 3600

\* Python's None, among values that are strings.
NoneVal == "<None>"
\* Python's truth value of an optional string.
Truthy(x) == x # NoneVal /\ x # ""
\* dict.get(k, default) of a JSON object, modelled as a record.
Get(d, k, default) == IF k \in DOMAIN d THEN d[k] ELSE default
Min(a, b) == IF a <= b THEN a ELSE b

VARIABLES
  args,            \* the constructor's arguments: [base_url, jwt_token, email,
                   \* api_token, verify_ssl]
  base_url,        \* self.base_url: a string is the sequence of its tokens, each
                   \* a "/" or a run of other characters
  headers,         \* self.headers
  auth,            \* self.auth: <<>> for None, <<email, api_token>> for HTTPBasicAuth
  verify_ssl,      \* self.verify_ssl
  serverWorklogs,  \* the server's worklogs of the issue, in server order
  serverCap,       \* the most worklogs the server puts in one page
  serverAdds,      \* worklogs added to the issue since the start
  serverSilent,    \* TRUE: the server may leave a request without any answer
  pc,              \* "idle", "paging" (inside get_worklogs' loop), "returned", "raised",
                   \* "waiting" (inside requests.request, for an answer that never comes)
  op,              \* the operation called
  input,           \* the call's arguments
  start_at,        \* get_worklogs' local start_at
  all_worklogs,    \* get_worklogs' local all_worklogs
  requests,        \* the HTTP requests the call has sent, in order
  responses,       \* the HTTP responses the call has received, in order
  result,          \* <<>> or <<v>>: the value the call returned
  error,           \* the exception the call raised
  prev             \* the call before this one, [op, input, pc, status], when it was
                   \* a delete_worklog answered with 204; NoCall otherwise
VARIABLES
  saved            \* the call of the other thread, suspended: its locals and trace
VARIABLES
  session,         \* st.session_state of app.py: [logged_in, client, user_name, page,
                   \* all_worklogs, issues, projects], where <<>> is None and <<v>>
                   \* the value v for client, all_worklogs and projects
  shown,           \* the messages the last run of the script put on the page
  lastLoad,        \* the last run of load_all_worklogs: whether a fetch failed in it,
                   \* and the worklogs the server held then
  issueWorklogs,   \* the server's number of worklogs of each issue of the user
  query_params,    \* st.query_params: the encoded text of each key present
  runs             \* the runs of the script for the last event: the query parameters
                   \* each started with, what it called and what it rendered

vars == <<args, base_url, headers, auth, verify_ssl,
          serverWorklogs, serverCap, serverAdds, serverSilent,
          pc, op, input, start_at, all_worklogs, requests, responses, result, error,
          prev, saved, session, shown, lastLoad, issueWorklogs, query_params, runs>>
appVars == <<session, shown, lastLoad, issueWorklogs, query_params, runs>>
clientVars == <<args, base_url, headers, auth, verify_ssl>>
serverVars == <<serverWorklogs, serverCap, serverAdds, serverSilent>>
callVars == <<pc, op, input, start_at, all_worklogs, requests, responses, result, error>>

(***************************************************************************)
(* Construction: JiraClient.__init__.                                       *)
(***************************************************************************)
OptStrings(s) == {NoneVal, "", s}
Host == <<"https:", "/", "/", "x.atlassian.net">>
AllArgs == [base_url : {Host}, jwt_token : OptStrings("jwt"),
            email : OptStrings("me@x.io"), api_token : OptStrings("tok"),
            verify_ssl : {TRUE}]
BasicArgs ==
  [base_url |-> Host, jwt_token |-> NoneVal, email |-> "me@x.io", api_token |-> "tok",
   verify_ssl |-> TRUE]
SslArgs == {[BasicArgs EXCEPT !.verify_ssl = v] : v \in BOOLEAN}
\* The base URLs given: a host or nothing, followed by slashes and path segments.
UrlTails == UNION {[1..n -> {"/", "jira"}] : n \in 0..MaxUrlTail}
UrlInputs == {Host \o t : t \in UrlTails} \cup UrlTails
UrlArgs == {[BasicArgs EXCEPT !.base_url = u] : u \in UrlInputs}

\* A normalisation that drops one trailing slash only.
RStripOne(s) ==
  IF s # <<>> /\ s[Len(s)] = "/" THEN SubSeq(s, 1, Len(s) - 1) ELSE s
\* base_url.rstrip("/").
RECURSIVE RStrip(_)
RStrip(s) ==
  IF s # <<>> /\ s[Len(s)] = "/" THEN RStrip(SubSeq(s, 1, Len(s) - 1)) ELSE s

BaseHeaders ==
  [Accept |-> "application/json", ContentType |-> "application/json",
   UserAgent |-> "StreamlitJiraApp/1.0"]
WithAuthorization(h, value) ==
  [k \in DOMAIN h \cup {"Authorization"} |-> IF k = "Authorization" THEN value ELSE h[k]]

\* self.headers after __init__: the Authorization header is set for a JWT token.
InitHeaders(a) ==
  IF Truthy(a.jwt_token) THEN WithAuthorization(BaseHeaders, <<"JWT", a.jwt_token>>)
  ELSE BaseHeaders

\* A constructor that builds basic auth whatever the JWT token is.
InitAuthAlways(a) ==
  IF Truthy(a.email) /\ Truthy(a.api_token) THEN <<a.email, a.api_token>> ELSE <<>>
\* self.auth after __init__: <<>> is None, <<email, api_token>> is HTTPBasicAuth.
InitAuth(a) ==
  IF Truthy(a.jwt_token) THEN <<>>
  ELSE IF Truthy(a.email) /\ Truthy(a.api_token) THEN <<a.email, a.api_token>>
  ELSE <<>>

(***************************************************************************)
(* HTTP responses. A response is [status, kind, text, json]: kind is what   *)
(* resp.json() finds in the body ("dict", "list", or "text" for a body that *)
(* is not JSON), text is resp.text and json the parsed object. Status 0     *)
(* stands for no response at all: requests.request raised.                  *)
(***************************************************************************)
NoJson == [invalid |-> TRUE]
NetFail == [status |-> 0, kind |-> "none", text |-> "", json |-> NoJson]
\* No answer at all: the connection stays open and nothing comes back.
Unanswered == [status |-> -1, kind |-> "none", text |-> "", json |-> NoJson]
OkBody(j) == [kind |-> "dict", text |-> "", json |-> j]
WithStatus(s, b) == [status |-> s, kind |-> b.kind, text |-> b.text, json |-> b.json]

EpicNameRequired == "Epic Name is required."
HtmlBody == [kind |-> "text", text |-> "<html>Bad Gateway</html>", json |-> NoJson]
ListBody == [kind |-> "list", text |-> "[\"error\"]", json |-> NoJson]
PlainDictBody ==
  [kind |-> "dict", text |-> "{\"message\":\"Forbidden\"}",
   json |-> [message |-> "Forbidden"]]
FieldOnlyBody ==
  [kind |-> "dict",
   text |-> "{\"errorMessages\":[],\"errors\":{\"customfield_10011\":\"Epic Name is required.\"}}",
   json |-> [errorMessages |-> <<>>, errors |-> [customfield_10011 |-> EpicNameRequired]]]
NoListFieldBody ==
  [kind |-> "dict",
   text |-> "{\"errors\":{\"customfield_10011\":\"Epic Name is required.\"}}",
   json |-> [errors |-> [customfield_10011 |-> EpicNameRequired]]]
MessageBody ==
  [kind |-> "dict", text |-> "{\"errorMessages\":[\"Issue does not exist\"]}",
   json |-> [errorMessages |-> <<"Issue does not exist">>]]
TwoMessagesBody ==
  [kind |-> "dict",
   text |-> "{\"errorMessages\":[\"Worklog not found\",\"Try again\"]}",
   json |-> [errorMessages |-> <<"Worklog not found", "Try again">>]]
MixedBody ==
  [kind |-> "dict",
   text |-> "{\"errorMessages\":[\"Issue cannot be created\"],\"errors\":{\"customfield_10011\":\"Epic Name is required.\"}}",
   json |-> [errorMessages |-> <<"Issue cannot be created">>,
             errors |-> [customfield_10011 |-> EpicNameRequired]]]

\* Every shape of error body, and the few the client's operations are run against.
ErrBodies ==
  {HtmlBody, ListBody, PlainDictBody, FieldOnlyBody, NoListFieldBody, MessageBody,
   TwoMessagesBody, MixedBody}
OpErrBodies == {HtmlBody, FieldOnlyBody}
OkStatuses == {200, 201, 204}
ErrStatuses == {300, 304, 400, 401, 403, 404, 409, 422, 429, 500, 503}
OpErrStatuses == {300, 404, 500}
AllResponses ==
  {WithStatus(s, b) : s \in OkStatuses \cup ErrStatuses, b \in ErrBodies}
\* What any request may meet instead of its answer: an error response, or no response.
OpFailures == {WithStatus(s, b) : s \in OpErrStatuses, b \in OpErrBodies} \cup {NetFail}
\* What any request may meet: a failure, or the silence of a server that is silent.
OpOutcomes == OpFailures \cup (IF serverSilent THEN {Unanswered} ELSE {})

(***************************************************************************)
(* JiraClient._raise and JiraClient._request.                               *)
(***************************************************************************)
NoError == [type |-> "", status |-> 0, msg |-> ""]

\* An ok that lets a 404 through.
OkNotFound(resp) == resp.status < 400 \/ resp.status = 404
\* requests' Response.ok: the status is below 400.
Ok(resp) == resp.status < 400

\* msg of _raise: errorMessages[0], and resp.text whenever the try block raises
\* (a body that is not JSON, one that is no object, an empty errorMessages).
ErrorMsg(resp) ==
  IF resp.kind # "dict" THEN resp.text
  ELSE LET messages == Get(resp.json, "errorMessages", <<resp.text>>)
       IN IF Len(messages) = 0 THEN resp.text ELSE messages[1]

\* The exception _raise raises for resp; NoError when it returns.
Raise(resp) ==
  IF ~Ok(resp)
    THEN [type |-> "Exception", status |-> resp.status, msg |-> ErrorMsg(resp)]
    ELSE NoError

\* The exception _request ends with; NoError when it returns resp.
RequestError(resp) ==
  IF resp.status = 0 THEN [type |-> "ConnectionError", status |-> 0, msg |-> ""]
  ELSE Raise(resp)

\* The exception of _request(...).json() followed, with asDict, by .get(...).
JsonError(resp, asDict) ==
  IF RequestError(resp) # NoError THEN RequestError(resp)
  ELSE IF resp.kind \notin {"dict", "list"}
    THEN [type |-> "JSONDecodeError", status |-> 0, msg |-> ""]
  ELSE IF asDict /\ resp.kind # "dict"
    THEN [type |-> "AttributeError", status |-> 0, msg |-> ""]
  ELSE NoError

\* The keyword arguments _request passes to requests.request: the client's headers,
\* its auth when it has one, verify, and no timeout (requests' default: None).
Request(method, path, params, json) ==
  [method |-> method, url |-> base_url \o path, params |-> params, json |-> json,
   headers |-> headers, auth |-> auth, verify |-> verify_ssl, timeout |-> NoneVal]

\* requests.request on a request that is never answered: it raises Timeout once the
\* timeout has passed, and never returns without a timeout.
Waits(req) == req.timeout = NoneVal

(***************************************************************************)
(* The server.                                                              *)
(***************************************************************************)
IssueKey == "PROJ-1"
\* The worklog counts the server starts with: around each page boundary.
Sizes == {n \in {k * PageSize + d : k \in 0..MaxPages, d \in {-1, 0, 1}} : n >= 0}
ServerCaps == {PageSize, SmallCap}
Worklogs(n) == [i \in 1..n |-> i]
ServerIssues == <<"PROJ-1", "PROJ-2">>
ServerProjects == <<"PROJ">>

\* The page of worklogs the server answers GET .../worklog?startAt&maxResults with.
WorklogPage(startAt, maxResults) ==
  LET n == Len(serverWorklogs)
      last == Min(n, startAt + Min(maxResults, serverCap))
  IN [startAt |-> startAt, maxResults |-> Min(maxResults, serverCap), total |-> n,
      worklogs |-> SubSeq(serverWorklogs, startAt + 1, last)]
WithoutTotal(page) == [k \in DOMAIN page \ {"total"} |-> page[k]]
WorklogAnswers(startAt, maxResults) ==
  {WithStatus(200, OkBody(WorklogPage(startAt, maxResults))),
   WithStatus(200, OkBody(WithoutTotal(WorklogPage(startAt, maxResults))))}

\* Another user adds a worklog while a get_worklogs call is between two pages.
ServerAddWorklog ==
  /\ pc = "paging"
  /\ serverAdds < MaxAdds
  /\ serverWorklogs' = Append(serverWorklogs, Len(serverWorklogs) + 1)
  /\ serverAdds' = serverAdds + 1
  /\ UNCHANGED <<serverCap, serverSilent, clientVars, callVars, prev, saved, appVars>>


(***************************************************************************)
(* The operations of the client. A call that makes one request is one       *)
(* action; get_worklogs is its call and one action per iteration of its     *)
(* loop.                                                                    *)
(***************************************************************************)
\* "/a/b" for <<a, b>>.
RECURSIVE Slashed(_)
Slashed(segments) ==
  IF segments = <<>> THEN <<>> ELSE <<"/", Head(segments)>> \o Slashed(Tail(segments))
\* The path "/rest/api/3/..." that an operation appends to self.base_url.
ApiPath(rest) == Slashed(<<"rest", "api", "3">> \o rest)
NoParams == [none |-> TRUE]
NoPayload == [none |-> TRUE]
\* x or default.
OrElse(x, default) == IF Truthy(x) THEN x ELSE default

\* The requests one call of _request sends for req, answered by resp.
AttemptsWithRetry(req, resp) == IF RequestError(resp) # NoError THEN <<req, req>> ELSE <<req>>
Attempts(req, resp) == <<req>>

\* A call that makes one request: its request, the answer, and what it ends with.
\* err is the exception the call ends with (NoError: it returns val).
Finish(name, in, req, resp, err, val) ==
  /\ op' = name
  /\ input' = in
  /\ IF resp = Unanswered
       THEN /\ pc' = IF Waits(req) THEN "waiting" ELSE "raised"
            /\ requests' = <<req>>
            /\ responses' = <<>>
            /\ error' = IF Waits(req) THEN NoError
                        ELSE [type |-> "Timeout", status |-> 0, msg |-> ""]
            /\ result' = <<>>
       ELSE /\ pc' = IF err # NoError THEN "raised" ELSE "returned"
            /\ requests' = Attempts(req, resp)
            /\ responses' = <<resp>>
            /\ error' = err
            /\ result' = IF err # NoError THEN <<>> ELSE <<val>>
  /\ UNCHANGED <<start_at, all_worklogs, clientVars, prev, saved, appVars>>

\* The locals and the trace of a thread that is in no call.
IdleFrame ==
  [pc |-> "idle", op |-> "", input |-> NoParams, start_at |-> 0, all_worklogs |-> <<>>,
   requests |-> <<>>, responses |-> <<>>, result |-> <<>>, error |-> NoError]
\* The locals and the trace of the running thread's call.
Frame ==
  [pc |-> pc, op |-> op, input |-> input, start_at |-> start_at,
   all_worklogs |-> all_worklogs, requests |-> requests, responses |-> responses,
   result |-> result, error |-> error]
\* A start_at kept on the client: a thread resuming finds what the other one left.
LocalShared(own, other) == other
\* start_at is a local of get_worklogs: a thread resuming finds its own value.
Local(own, other) == own
\* The scheduler suspends the running thread and resumes the other one.
Switch ==
  /\ saved' = Frame
  /\ pc' = saved.pc
  /\ op' = saved.op
  /\ input' = saved.input
  /\ start_at' = Local(saved.start_at, start_at)
  /\ all_worklogs' = saved.all_worklogs
  /\ requests' = saved.requests
  /\ responses' = saved.responses
  /\ result' = saved.result
  /\ error' = saved.error
  /\ UNCHANGED <<clientVars, serverVars, prev, appVars>>

\* The session the script starts with, and the one logout leaves after the rerun.
InitSession ==
  [logged_in |-> FALSE, client |-> <<>>, user_name |-> "", page |-> "Dashboard",
   all_worklogs |-> <<>>, issues |-> <<>>, projects |-> <<>>]
EmptyParams == [k \in {} |-> <<>>]
Issues == {ServerIssues[i] : i \in 1..Len(ServerIssues)}
NoLoad == [failed |-> FALSE, truth |-> [key \in Issues |-> 0]]
NoCall == [op |-> "", input |-> NoParams, pc |-> "idle", status |-> 0]
\* The caller takes the value or the exception; the client is ready for the next call.
Reset ==
  /\ pc \in {"returned", "raised"}
  /\ pc' = "idle"
  /\ op' = ""
  /\ input' = NoParams
  /\ start_at' = 0
  /\ all_worklogs' = <<>>
  /\ requests' = <<>>
  /\ responses' = <<>>
  /\ result' = <<>>
  /\ error' = NoError
  /\ prev' = IF op = "delete_worklog" /\ responses # <<>> /\ responses[1].status = 204
               THEN [op |-> op, input |-> input, pc |-> pc, status |-> 204]
               ELSE NoCall
  /\ UNCHANGED <<clientVars, serverVars, saved, appVars>>

\* _raise applied to a response, for every status and every shape of body.
raise_response ==
  /\ pc = "idle"
  /\ \E resp \in AllResponses :
       /\ pc' = IF Raise(resp) # NoError THEN "raised" ELSE "returned"
       /\ op' = "_raise"
       /\ responses' = <<resp>>
       /\ error' = Raise(resp)
  /\ UNCHANGED <<input, requests, result, start_at, all_worklogs, clientVars, serverVars,
                 prev, saved, appVars>>

get_myself ==
  /\ pc = "idle"
  /\ \E resp \in {WithStatus(200, OkBody([displayName |-> "Me", accountId |-> "a1"]))}
                   \cup OpOutcomes :
       Finish("get_myself", NoParams,
              Request("GET", ApiPath(<<"myself">>), NoParams, NoPayload),
              resp, JsonError(resp, FALSE), resp.json)
  /\ UNCHANGED serverVars

get_projects ==
  /\ pc = "idle"
  /\ \E resp \in {WithStatus(200, OkBody([values |-> ServerProjects, total |-> 1])),
                  WithStatus(200, OkBody([total |-> 0]))} \cup OpOutcomes :
       Finish("get_projects", NoParams,
              Request("GET", ApiPath(<<"project", "search">>), NoParams, NoPayload),
              resp, JsonError(resp, TRUE), Get(resp.json, "values", <<>>))
  /\ UNCHANGED serverVars

(***************************************************************************)
(* search_issues and get_my_issues.                                         *)
(***************************************************************************)
DefaultFields == <<"summary", "project", "issuetype", "assignee", "status">>
DefaultJql == "assignee = currentUser() ORDER BY updated DESC"
Jqls == {NoneVal, "", "project = PROJ"}
\* <<>> stands for fields = None and for fields = [].
FieldLists == {<<>>, <<"summary", "timetracking">>}
MaxResultsInputs == {1, PageSize}

\* A search that sends the caller's fields as they are, defaulting nothing.
SearchPayloadNoDefault(jql, max_results, fields) ==
  [jql |-> jql, maxResults |-> max_results, fields |-> fields]
SearchPayload(jql, max_results, fields) ==
  [jql |-> jql, maxResults |-> max_results,
   fields |-> IF fields = <<>> THEN DefaultFields ELSE fields]
SearchAnswers(payload) ==
  {WithStatus(200, OkBody([issues |-> SubSeq(ServerIssues, 1,
                                             Min(payload.maxResults, Len(ServerIssues))),
                           total |-> Len(ServerIssues)])),
   WithStatus(200, OkBody([total |-> 0]))}
\* The body of search_issues, called as name with the arguments in.
Search(name, in, jql, max_results, fields) ==
  LET payload == SearchPayload(jql, max_results, fields)
  IN \E resp \in SearchAnswers(payload) \cup OpOutcomes :
       Finish(name, in, Request("POST", ApiPath(<<"search">>), NoParams, payload),
              resp, JsonError(resp, TRUE), Get(resp.json, "issues", <<>>))

search_issues ==
  /\ pc = "idle"
  /\ \E jql \in Jqls \ {NoneVal}, max_results \in MaxResultsInputs, fields \in FieldLists :
       Search("search_issues", [jql |-> jql, max_results |-> max_results, fields |-> fields],
              jql, max_results, fields)
  /\ UNCHANGED serverVars

get_my_issues ==
  /\ pc = "idle"
  /\ \E jql \in Jqls, max_results \in MaxResultsInputs :
       Search("get_my_issues", [jql |-> jql, max_results |-> max_results],
              OrElse(jql, DefaultJql), max_results, <<>>)
  /\ UNCHANGED serverVars

(***************************************************************************)
(* create_issue.                                                            *)
(***************************************************************************)
\* The rich-text document of one paragraph holding one text run.
Adf(text) ==
  [type |-> "doc", version |-> 1,
   content |-> <<[type |-> "paragraph",
                  content |-> <<[type |-> "text", text |-> text]>>]>>]
IssueTypes == {"Task", "Epic"}
Descriptions == {NoneVal, "It fails"}
EpicNames == {NoneVal, "", "Checkout"}
CreateInputs ==
  [project_key : {"PROJ"}, summary : {"Fix it"}, description : Descriptions,
   issue_type : IssueTypes, epic_name : EpicNames]

IssueFields(in) ==
  [project |-> [key |-> in.project_key], summary |-> in.summary,
   description |-> Adf(OrElse(in.description, "")),
   issuetype |-> [name |-> in.issue_type]]
WithEpicName(f, name) ==
  [k \in DOMAIN f \cup {"customfield_10011"} |->
     IF k = "customfield_10011" THEN name ELSE f[k]]
\* A create_issue that sets the Epic Name field of every Epic, named or not.
CreatePayloadAnyEpic(in) ==
  [fields |-> IF in.issue_type = "Epic" THEN WithEpicName(IssueFields(in), in.epic_name)
              ELSE IssueFields(in)]
\* payload of create_issue.
CreatePayload(in) ==
  [fields |-> IF in.issue_type = "Epic" /\ Truthy(in.epic_name)
                THEN WithEpicName(IssueFields(in), in.epic_name)
                ELSE IssueFields(in)]
\* A server may accept an Epic without a name; one that requires it answers 400.
CreateAnswers(payload) ==
  {WithStatus(201, OkBody([id |-> "10003", key |-> "PROJ-3"]))}
  \cup IF payload.fields.issuetype.name = "Epic"
          /\ "customfield_10011" \notin DOMAIN payload.fields
         THEN {WithStatus(400, FieldOnlyBody), WithStatus(400, MixedBody)}
         ELSE {}

create_issue ==
  /\ pc = "idle"
  /\ \E in \in CreateInputs :
       \E resp \in CreateAnswers(CreatePayload(in)) \cup OpOutcomes :
         Finish("create_issue", in,
                Request("POST", ApiPath(<<"issue">>), NoParams, CreatePayload(in)),
                resp, JsonError(resp, FALSE), resp.json)
  /\ UNCHANGED serverVars

(***************************************************************************)
(* get_worklogs.                                                            *)
(***************************************************************************)
WorklogPath == ApiPath(<<"issue", IssueKey, "worklog">>)

\* The loop's exit test with > for >=.
LoopDoneStrict(startAt, data) == startAt + PageSize > Get(data, "total", 0)
\* The loop's exit test: start_at + 100 >= data.get("total", 0).
LoopDone(startAt, data) == startAt + PageSize >= Get(data, "total", 0)

\* A loop that steps by the number of worklogs received less one.
NextStartShort(startAt) == startAt + PageSize - 1
\* start_at += 100.
NextStart(startAt) == startAt + PageSize

\* A page read as data["total"]: a KeyError when the response has no total.
PageErrorKeyed(resp) ==
  IF JsonError(resp, TRUE) # NoError THEN JsonError(resp, TRUE)
  ELSE IF "total" \notin DOMAIN resp.json
    THEN [type |-> "KeyError", status |-> 0, msg |-> "total"]
  ELSE NoError
\* The exception one iteration ends with: that of _request(...).json() and .get.
PageError(resp) == JsonError(resp, TRUE)

get_worklogs_call ==
  /\ pc = "idle"
  /\ pc' = "paging"
  /\ op' = "get_worklogs"
  /\ input' = [issue_key |-> IssueKey]
  /\ all_worklogs' = <<>>
  /\ start_at' = 0
  /\ UNCHANGED <<requests, responses, result, error, clientVars, serverVars, prev, saved, appVars>>

\* One iteration of the loop: a request, and the break or the step.
get_worklogs_page ==
  /\ pc = "paging"
  /\ LET req == Request("GET", WorklogPath,
                        [startAt |-> start_at, maxResults |-> PageSize], NoPayload)
     IN \E resp \in WorklogAnswers(req.params.startAt, req.params.maxResults)
                      \cup OpOutcomes :
          IF resp = Unanswered
          THEN /\ requests' = Append(requests, req)
               /\ pc' = IF Waits(req) THEN "waiting" ELSE "raised"
               /\ error' = IF Waits(req) THEN NoError
                           ELSE [type |-> "Timeout", status |-> 0, msg |-> ""]
               /\ UNCHANGED <<responses, all_worklogs, start_at, result>>
          ELSE
          /\ requests' = requests \o Attempts(req, resp)
          /\ responses' = Append(responses, resp)
          /\ IF PageError(resp) # NoError
               THEN /\ pc' = "raised"
                    /\ error' = PageError(resp)
                    /\ UNCHANGED <<all_worklogs, start_at, result>>
               ELSE LET data == resp.json
                        all == all_worklogs \o Get(data, "worklogs", <<>>)
                    IN /\ all_worklogs' = all
                       /\ IF LoopDone(start_at, data)
                            THEN /\ pc' = "returned"
                                 /\ result' = <<all>>
                                 /\ UNCHANGED start_at
                            ELSE /\ start_at' = NextStart(start_at)
                                 /\ UNCHANGED <<pc, result>>
                       /\ UNCHANGED error
  /\ UNCHANGED <<op, input, clientVars, serverVars, prev, saved, appVars>>

(***************************************************************************)
(* add_worklog, update_worklog, delete_worklog.                             *)
(***************************************************************************)
Comments == {NoneVal, "", "Reviewed"}
WorklogIds == {1}
HoursDens == {2, 10, 7200}
\* hours is the rational h[1] / h[2].
HoursInputs == (0..MaxHoursNum) \X HoursDens

\* int(float(hours) * 3600): the product, truncated (hours is not negative).
TimeSeconds(h) == (h[1] * SecondsPerHour) \div h[2]

Remove(seq, x) == SelectSeq(seq, LAMBDA y : y # x)
InSeq(seq, x) == \E i \in 1..Len(seq) : seq[i] = x

AddPayload(in) ==
  IF Truthy(in.comment)
    THEN [timeSpent |-> in.time_spent, started |-> in.started, comment |-> Adf(in.comment)]
    ELSE [timeSpent |-> in.time_spent, started |-> in.started]

add_worklog ==
  /\ pc = "idle"
  /\ \E comment \in Comments :
       LET in == [issue_key |-> IssueKey, time_spent |-> "2h 30m", comment |-> comment,
                  started |-> "2024-05-01T09:00:00.000+0000"]
           id == Len(serverWorklogs) + serverAdds + 1
           created == {WithStatus(201, OkBody([id |-> id, timeSpentSeconds |-> 9000]))}
       IN \E resp \in (IF serverAdds < MaxAdds THEN created ELSE {}) \cup OpOutcomes :
            /\ Finish("add_worklog", in,
                      Request("POST", WorklogPath, NoParams, AddPayload(in)),
                      resp, JsonError(resp, FALSE), resp.json)
            /\ IF resp \in created
                 THEN /\ serverWorklogs' = Append(serverWorklogs, id)
                      /\ serverAdds' = serverAdds + 1
                 ELSE UNCHANGED <<serverWorklogs, serverAdds>>
  /\ UNCHANGED <<serverCap, serverSilent>>

UpdatePayload(in) ==
  [timeSpentSeconds |-> TimeSeconds(in.hours), comment |-> Adf(in.comment)]

update_worklog ==
  /\ pc = "idle"
  /\ \E id \in WorklogIds, hours \in HoursInputs, comment \in Comments :
       LET in == [issue_key |-> IssueKey, worklog_id |-> id, hours |-> hours,
                  comment |-> comment]
           payload == UpdatePayload(in)
           updated == IF InSeq(serverWorklogs, id)
                        THEN {WithStatus(200, OkBody([id |-> id,
                                timeSpentSeconds |-> payload.timeSpentSeconds]))}
                        ELSE {WithStatus(404, TwoMessagesBody)}
       IN \E resp \in updated \cup OpOutcomes :
            Finish("update_worklog", in,
                   Request("PUT", WorklogPath \o Slashed(<<id>>), NoParams, payload),
                   resp, JsonError(resp, FALSE), resp.json)
  /\ UNCHANGED serverVars

delete_worklog ==
  /\ pc = "idle"
  /\ \E id \in WorklogIds :
       LET in == [issue_key |-> IssueKey, worklog_id |-> id]
           deleted == IF InSeq(serverWorklogs, id)
                        THEN {[status |-> 204, kind |-> "text", text |-> "", json |-> NoJson]}
                        ELSE {WithStatus(404, TwoMessagesBody)}
       IN \E resp \in deleted \cup OpOutcomes :
            /\ Finish("delete_worklog", in,
                      Request("DELETE", WorklogPath \o Slashed(<<id>>), NoParams, NoPayload),
                      resp, RequestError(resp), resp)
            /\ IF resp.status = 204
                 THEN serverWorklogs' = Remove(serverWorklogs, id)
                 ELSE UNCHANGED serverWorklogs
  /\ UNCHANGED <<serverCap, serverAdds, serverSilent>>

(***************************************************************************)
(* The specification.                                                       *)
(***************************************************************************)
\* A client of any credentials or any base URL against an issue without worklogs,
\* and a client of basic credentials against an issue of any size.
Constructed(silent) ==
  /\ \/ /\ args \in AllArgs \cup UrlArgs \cup SslArgs
        /\ serverWorklogs = <<>> /\ serverCap = PageSize
     \/ args = BasicArgs /\ serverWorklogs \in {Worklogs(n) : n \in Sizes}
        /\ serverCap \in ServerCaps
  /\ base_url = RStrip(args.base_url)
  /\ headers = InitHeaders(args)
  /\ auth = InitAuth(args)
  /\ verify_ssl = args.verify_ssl
  /\ serverAdds = 0
  /\ serverSilent = silent
  /\ prev = NoCall
  /\ saved = IdleFrame
  /\ session = InitSession
  /\ shown = {}
  /\ lastLoad = NoLoad
  /\ issueWorklogs = [key \in Issues |-> 0]
  /\ query_params = EmptyParams
  /\ runs = <<>>
  /\ pc = "idle"
  /\ op = ""
  /\ input = NoParams
  /\ start_at = 0
  /\ all_worklogs = <<>>
  /\ requests = <<>>
  /\ responses = <<>>
  /\ result = <<>>
  /\ error = NoError

\* The server answers every request.
Init == Constructed(FALSE)
\* The server may leave any request unanswered.
SilentInit == Constructed(TRUE)

Next ==
  \/ raise_response
  \/ get_myself
  \/ get_projects
  \/ search_issues
  \/ get_my_issues
  \/ create_issue
  \/ get_worklogs_call
  \/ get_worklogs_page
  \/ add_worklog
  \/ update_worklog
  \/ delete_worklog
  \/ ServerAddWorklog
  \/ Reset

Spec == Init /\ [][Next]_vars

\* The loop runs on while the server answers.
LiveSpec == Spec /\ WF_vars(get_worklogs_page)

(***************************************************************************)
(* extract_comment of app.py. A JSON value is a record tagged with its      *)
(* kind k: None, a string (the sequence of its tokens: a word is one token, *)
(* a space is one token), a number, a list or a dict (a record of values).  *)
(***************************************************************************)
JNone == [k |-> "none"]
Str(s) == [k |-> "str", s |-> s]
Num(n) == [k |-> "num", n |-> n]
List(xs) == [k |-> "list", items |-> xs]
Dict(fields) == [k |-> "dict", f |-> fields]
EmptyDict == [k |-> "dict", f |-> <<>>]

\* Python's "not v".
Falsy(v) ==
  CASE v.k = "none" -> TRUE
    [] v.k = "str" -> v.s = <<>>
    [] v.k = "num" -> v.n = 0
    [] v.k = "list" -> v.items = <<>>
    [] v.k = "dict" -> DOMAIN v.f = {}
\* d.get(key, default) of a dict d.
DictGet(d, key, default) == IF key \in DOMAIN d.f THEN d.f[key] ELSE default
\* The elements of a set, in some order.
RECURSIVE SetToSeq(_)
SetToSeq(S) ==
  IF S = {} THEN <<>> ELSE LET x == CHOOSE y \in S : TRUE IN <<x>> \o SetToSeq(S \ {x})
\* "for x in v": a list gives its items, a dict its keys, a string its characters,
\* and anything else raises TypeError.
Iterable(v) == v.k \in {"list", "dict", "str"}
Elements(v) ==
  CASE v.k = "list" -> v.items
    [] v.k = "dict" -> LET keys == SetToSeq(DOMAIN v.f)
                       IN [i \in 1..Len(keys) |-> Str(<<keys[i]>>)]
    [] v.k = "str" -> [i \in 1..Len(v.s) |-> Str(<<v.s[i]>>)]
IsText(v) == v.k = "str" /\ v.s = <<"text">>

\* A join that puts nothing between the strings.
RECURSIVE JoinNoSpace(_)
JoinNoSpace(texts) ==
  IF texts = <<>> THEN <<>> ELSE Head(texts).s \o JoinNoSpace(Tail(texts))
\* " ".join(texts) of strings.
RECURSIVE Join(_)
Join(texts) ==
  IF texts = <<>> THEN <<>>
  ELSE IF Len(texts) = 1 THEN texts[1].s
  ELSE texts[1].s \o <<" ">> \o Join(Tail(texts))

\* The inner loop over the items of one block: the values appended to texts, or
\* the exception that ends the loop.
RECURSIVE ItemsTexts(_)
ItemsTexts(items) ==
  IF items = <<>> THEN [error |-> "", texts |-> <<>>]
  ELSE LET item == Head(items)
       IN IF item.k # "dict" THEN [error |-> "AttributeError", texts |-> <<>>]
          ELSE LET own == IF IsText(DictGet(item, "type", JNone))
                            THEN <<DictGet(item, "text", Str(<<>>))>>
                            ELSE <<>>
                   rest == ItemsTexts(Tail(items))
               IN IF rest.error # "" THEN rest
                  ELSE [error |-> "", texts |-> own \o rest.texts]
\* The outer loop over the blocks of the document.
RECURSIVE BlocksTexts(_)
BlocksTexts(blocks) ==
  IF blocks = <<>> THEN [error |-> "", texts |-> <<>>]
  ELSE LET block == Head(blocks)
       IN IF block.k # "dict" THEN [error |-> "AttributeError", texts |-> <<>>]
          ELSE LET content == DictGet(block, "content", List(<<>>))
               IN IF ~Iterable(content) THEN [error |-> "TypeError", texts |-> <<>>]
                  ELSE LET own == ItemsTexts(Elements(content))
                           rest == BlocksTexts(Tail(blocks))
                       IN IF own.error # "" THEN own
                          ELSE IF rest.error # "" THEN rest
                          ELSE [error |-> "", texts |-> own.texts \o rest.texts]
\* extract_comment(comment): the exception it raises ("" for none) and its value.
ExtractComment(comment) ==
  IF Falsy(comment) \/ comment.k # "dict" THEN [error |-> "", value |-> <<>>]
  ELSE LET content == DictGet(comment, "content", List(<<>>))
       IN IF ~Iterable(content) THEN [error |-> "TypeError", value |-> <<>>]
          ELSE LET found == BlocksTexts(Elements(content))
               IN IF found.error # "" THEN [error |-> found.error, value |-> <<>>]
                  ELSE IF \E i \in 1..Len(found.texts) : found.texts[i].k # "str"
                    THEN [error |-> "TypeError", value |-> <<>>]
                  ELSE [error |-> "", value |-> Join(found.texts)]

\* The comments extract_comment is applied to.
Sequences(S, n) == UNION {[1..m -> S] : m \in 0..n}
TextRun(s) == Dict([type |-> Str(<<"text">>), text |-> Str(s)])
Node(type, children) == Dict([type |-> Str(<<type>>), content |-> List(children)])
TextRuns == {TextRun(<<"Hello">>), TextRun(<<"World">>), TextRun(<<>>)}
HardBreak == Dict([type |-> Str(<<"hardBreak">>)])
\* Documents of paragraphs of text runs and hard breaks.
Paragraphs == {Node("paragraph", items) : items \in Sequences(TextRuns \cup {HardBreak}, MaxRuns)}
PlainDocs == {Node("doc", blocks) : blocks \in Sequences(Paragraphs, MaxBlocks)}
HelloWorld ==
  Node("doc", <<Node("paragraph", <<TextRun(<<"Hello">>)>>),
                Node("paragraph", <<TextRun(<<"World">>)>>)>>)
\* Documents with text below the second level, or at the first.
Hello == Node("paragraph", <<TextRun(<<"Hello">>)>>)
BulletList == Node("bulletList", <<Node("listItem", <<Hello>>)>>)
Panel == Node("panel", <<Hello>>)
NestedDocs ==
  {Node("doc", blocks) : blocks \in Sequences({Hello, BulletList, Panel, TextRun(<<"World">>)},
                                               MaxBlocks)}
\* Malformed and incomplete trees.
BadItems ==
  {Dict([type |-> Str(<<"text">>)]), Dict([type |-> Str(<<"text">>), text |-> JNone]),
   Dict([text |-> Str(<<"Hello">>)]), Str(<<"Hello">>), JNone, Num(1), EmptyDict}
BadContents == {JNone, Num(1), Str(<<"Hello">>), Str(<<>>), EmptyDict, Hello}
BadBlocks ==
  {Node("paragraph", <<item>>) : item \in BadItems}
    \cup {Dict([type |-> Str(<<"paragraph">>), content |-> c]) : c \in BadContents}
    \cup {Dict([type |-> Str(<<"paragraph">>)]), Str(<<"Hello">>), JNone, Num(1),
          List(<<Hello>>), EmptyDict}
BadDocs ==
  {Node("doc", blocks) : blocks \in Sequences(BadBlocks \cup {Hello}, MaxBlocks)}
    \cup {Dict([type |-> Str(<<"doc">>), content |-> c]) : c \in BadContents}
    \cup {Dict([type |-> Str(<<"doc">>)])}
NonDocs == {JNone, EmptyDict, Str(<<>>), Str(<<"Hello">>), Num(0), Num(1), List(<<>>), List(<<Hello>>)}
CommentInputs == PlainDocs \cup NestedDocs \cup BadDocs \cup NonDocs

extract_comment ==
  /\ pc = "idle"
  /\ \E comment \in CommentInputs :
       LET out == ExtractComment(comment)
       IN /\ pc' = IF out.error # "" THEN "raised" ELSE "returned"
          /\ op' = "extract_comment"
          /\ input' = comment
          /\ result' = IF out.error # "" THEN <<>> ELSE <<out.value>>
          /\ error' = [type |-> out.error, status |-> 0, msg |-> ""]
  /\ UNCHANGED <<requests, responses, start_at, all_worklogs, clientVars, serverVars,
                 prev, saved, appVars>>

\* extract_comment applied to one comment after the other.
CommentInit ==
  /\ Init
  /\ args = BasicArgs
  /\ serverWorklogs = <<>>
CommentNext ==
  \/ extract_comment
  \/ Reset
CommentSpec == CommentInit /\ [][CommentNext]_vars

(***************************************************************************)
(* The question router of render_ai_assistant (ai_assistant.py). A question *)
(* is the sequence of its characters, so that "in" is a substring test.     *)
(***************************************************************************)
UpperLetters ==
  <<"A", "B", "C", "D", "E", "F", "G", "H", "I", "J", "K", "L", "M",
    "N", "O", "P", "Q", "R", "S", "T", "U", "V", "W", "X", "Y", "Z">>
LowerLetters ==
  <<"a", "b", "c", "d", "e", "f", "g", "h", "i", "j", "k", "l", "m",
    "n", "o", "p", "q", "r", "s", "t", "u", "v", "w", "x", "y", "z">>
\* question.lower().
LowerChar(c) ==
  IF \E i \in 1..Len(UpperLetters) : UpperLetters[i] = c
    THEN LowerLetters[CHOOSE i \in 1..Len(UpperLetters) : UpperLetters[i] = c]
    ELSE c
Lower(s) == [i \in 1..Len(s) |-> LowerChar(s[i])]
\* word in s.
Contains(s, word) ==
  \E i \in 1..(Len(s) - Len(word) + 1) : SubSeq(s, i, i + Len(word) - 1) = word

KwChart == <<"c", "h", "a", "r", "t">>
KwGraph == <<"g", "r", "a", "p", "h">>
KwBar == <<"b", "a", "r">>
KwProject == <<"p", "r", "o", "j", "e", "c", "t">>
KwAuthor == <<"a", "u", "t", "h", "o", "r">>
KwUser == <<"u", "s", "e", "r">>
KwDate == <<"d", "a", "t", "e">>
KwTrend == <<"t", "r", "e", "n", "d">>

\* The words of the questions asked: keywords in any case, words that hold a
\* keyword inside ("rebar", "users", "update"), and a word that holds none.
QuestionWords ==
  {<<"C", "h", "a", "r", "t">>,
   <<"g", "r", "a", "p", "h">>,
   <<"B", "A", "R">>,
   <<"r", "e", "b", "a", "r">>,
   <<"p", "r", "o", "j", "e", "c", "t">>,
   <<"A", "u", "t", "h", "o", "r">>,
   <<"u", "s", "e", "r", "s">>,
   <<"u", "p", "d", "a", "t", "e">>,
   <<"t", "r", "e", "n", "d">>,
   <<"h", "o", "u", "r", "s">>}
RECURSIVE SpaceJoin(_)
SpaceJoin(ws) ==
  IF ws = <<>> THEN <<>>
  ELSE IF Len(ws) = 1 THEN ws[1]
  ELSE ws[1] \o <<" ">> \o SpaceJoin(Tail(ws))
Questions == {SpaceJoin(ws) : ws \in Sequences(QuestionWords, MaxWords)}

ProjectChart == "Hours by Project"
AuthorChart == "Hours by Author"
TrendChart == "Worklog Trend Over Time"
NoChart == ""
\* The call openai.chat.completions.create(...) for a question.
LlmCall(question) == [model |-> "gpt-4o-mini", question |-> question]

\* A router that looks for the author before the project.
RouteAuthorFirst(question) ==
  LET q == Lower(question)
  IN IF Contains(q, KwChart) \/ Contains(q, KwGraph) \/ Contains(q, KwBar)
       THEN IF Contains(q, KwAuthor) \/ Contains(q, KwUser)
              THEN [chart |-> AuthorChart, llm |-> <<>>]
            ELSE IF Contains(q, KwProject)
              THEN [chart |-> ProjectChart, llm |-> <<>>]
            ELSE IF Contains(q, KwDate) \/ Contains(q, KwTrend)
              THEN [chart |-> TrendChart, llm |-> <<>>]
            ELSE [chart |-> NoChart, llm |-> <<LlmCall(question)>>]
       ELSE [chart |-> NoChart, llm |-> <<LlmCall(question)>>]
\* The "Run AI" block: the chart it plots and the language-model calls it makes.
Route(question) ==
  LET q == Lower(question)
  IN IF Contains(q, KwChart) \/ Contains(q, KwGraph) \/ Contains(q, KwBar)
       THEN IF Contains(q, KwProject)
              THEN [chart |-> ProjectChart, llm |-> <<>>]
            ELSE IF Contains(q, KwAuthor) \/ Contains(q, KwUser)
              THEN [chart |-> AuthorChart, llm |-> <<>>]
            ELSE IF Contains(q, KwDate) \/ Contains(q, KwTrend)
              THEN [chart |-> TrendChart, llm |-> <<>>]
            ELSE [chart |-> NoChart, llm |-> <<LlmCall(question)>>]
       ELSE [chart |-> NoChart, llm |-> <<LlmCall(question)>>]

\* The user asks a question, with an API key and a table of worklogs at hand.
ask_ai ==
  /\ pc = "idle"
  /\ \E question \in Questions :
       /\ pc' = "returned"
       /\ op' = "ask_ai"
       /\ input' = question
       /\ result' = <<Route(question)>>
  /\ UNCHANGED <<error, requests, responses, start_at, all_worklogs, clientVars,
                 serverVars, prev, saved, appVars>>

RouterInit ==
  /\ Init
  /\ args = BasicArgs
  /\ serverWorklogs = <<>>
RouterNext ==
  \/ ask_ai
  \/ Reset
RouterSpec == RouterInit /\ [][RouterNext]_vars

(***************************************************************************)
(* The reverse proxy (fastapi_proxy.py): the routes of the app in the order *)
(* of their registration, the proxy handler and the root handler. A request *)
(* is [method, path, query, headers, body]; a path, a URL and a content are *)
(* token sequences.                                                         *)
(***************************************************************************)
StreamlitUrl == <<"https:", "/", "/", "innodatajiradashboard.streamlit.app">>
HttpMethods == {"GET", "POST", "PUT", "DELETE", "OPTIONS", "PATCH"}
\* The values of the path parameter: "/" has the empty one.
PathParams == {<<>>, <<"healthz">>, <<"static", "/", "app.js">>}
Queries == {<<>>, <<"embed=true">>}
Bodies == {<<>>, <<"{\"a\":1}">>}
RequestHeaders ==
  {[name \in {"host", "accept"} |-> IF name = "host" THEN "proxy.example" ELSE "*/*"],
   [name \in {"accept"} |-> "*/*"],
   [name \in {"host", "cookie"} |-> IF name = "host" THEN "proxy.example" ELSE "sid=1"]}
HttpRequests ==
  {[method |-> m, path |-> <<"/">> \o p, query |-> q, headers |-> h, body |-> b] :
     m \in HttpMethods, p \in PathParams, q \in Queries, h \in RequestHeaders, b \in Bodies}

\* The routes in the order the decorators register them.
Routes ==
  <<[name |-> "proxy", methods |-> {"GET", "POST", "PUT", "DELETE", "OPTIONS"}],
    [name |-> "root", methods |-> {"GET"}]>>
\* "/{path:path}" matches every path, the empty parameter included; "/" matches "/".
PathMatches(route, path) ==
  IF route.name = "proxy" THEN path[1] = "/" ELSE path = <<"/">>
\* The router answers with the first route that matches path and method, with 405
\* when routes match the path only, and with 404 when none matches.
Dispatch(request) ==
  LET full == {i \in 1..Len(Routes) :
                 /\ PathMatches(Routes[i], request.path)
                 /\ request.method \in Routes[i].methods}
      partial == {i \in 1..Len(Routes) : PathMatches(Routes[i], request.path)}
  IN IF full # {} THEN Routes[CHOOSE i \in full : \A j \in full : i <= j].name
     ELSE IF partial # {} THEN "405"
     ELSE "404"

\* The upstream: what Streamlit answers, a redirect, or no connection (status 0).
Without(h, name) == [k \in DOMAIN h \ {name} |-> h[k]]
BlockingHeaders == {"x-frame-options", "content-security-policy"}
UpstreamHeaders ==
  {[name \in names |->
      CASE name = "content-type" -> <<"text/html">>
        [] name = "x-frame-options" -> <<"DENY">>
        [] name = "content-security-policy" -> <<"frame-ancestors 'none'">>
        [] OTHER -> <<"1">>] :
     names \in {{}, {"content-type"}, {"content-type", "x-frame-options"},
                {"content-type", "content-security-policy", "x-frame-options", "etag"}}}
UpstreamAnswers ==
  {[status |-> s, content |-> c, headers |-> h] :
     s \in {200, 404}, c \in {<<"<html>">>}, h \in UpstreamHeaders}
UpstreamRedirects ==
  {[status |-> s, content |-> <<>>,
    headers |-> [name \in {"location"} |-> <<"/", "login">>]] : s \in {302, 307}}
ConnectError == [status |-> 0, content |-> <<>>, headers |-> <<>>]
\* What client.request meets: redirects, then an answer or a failure.
UpstreamChains ==
  {redirects \o <<last>> :
     redirects \in Sequences(UpstreamRedirects, MaxRedirects),
     last \in UpstreamAnswers \cup {ConnectError}}

\* url = f"{STREAMLIT_URL}/{path}", and "?query" when there is a query.
ProxyUrl(request) ==
  StreamlitUrl \o request.path
    \o (IF request.query # <<>> THEN <<"?">> \o request.query ELSE <<>>)
\* The request the handler gives to httpx.
UpstreamRequest(request) ==
  [method |-> request.method, url |-> ProxyUrl(request),
   headers |-> Without(request.headers, "host"), content |-> request.body,
   timeout |-> NoneVal]
\* httpx with follow_redirects: the request that follows a redirect.
Redirected(req, redirect) ==
  LET get == redirect.status = 302 /\ req.method = "POST"
  IN [req EXCEPT !.method = IF get THEN "GET" ELSE @,
                 !.url = StreamlitUrl \o redirect.headers["location"],
                 !.content = IF get THEN <<>> ELSE @]
RECURSIVE UpstreamRequests(_, _)
UpstreamRequests(req, chain) ==
  IF Len(chain) <= 1 THEN <<req>>
  ELSE <<req>> \o UpstreamRequests(Redirected(req, chain[1]), Tail(chain))

\* Starlette's Response(content, status_code, media_type): content-length, and
\* content-type when a media type is given ("; charset=utf-8" added to text types).
ResponseHeaders(media_type) ==
  [name \in {"content-length"} \cup (IF media_type = <<>> THEN {} ELSE {"content-type"}) |->
     IF name = "content-length" THEN <<"len">>
     ELSE IF media_type[1] \in {"text/html", "text/plain"}
       THEN media_type \o <<"; charset=utf-8">>
     ELSE media_type]
MediaType(hs) ==
  IF "content-type" \in DOMAIN hs THEN hs["content-type"] ELSE <<>>

\* A proxy that hands on the headers of the upstream as they are.
ProxyResponseCopied(upstream) ==
  IF upstream.status = 0
    THEN [status |-> 500, content |-> <<"Error connecting to Streamlit: ", "e">>,
          headers |-> ResponseHeaders(<<>>)]
  ELSE [status |-> upstream.status, content |-> upstream.content,
        headers |-> upstream.headers]
\* The response of the proxy handler for what httpx returned or raised: the error
\* response, or a new response of the upstream's content, status and content type,
\* from which the headers that block embedding are deleted.
ProxyResponse(upstream) ==
  IF upstream.status = 0
    THEN [status |-> 500, content |-> <<"Error connecting to Streamlit: ", "e">>,
          headers |-> ResponseHeaders(<<>>)]
  ELSE LET built == ResponseHeaders(MediaType(upstream.headers))
       IN [status |-> upstream.status, content |-> upstream.content,
           headers |-> [k \in DOMAIN built \ BlockingHeaders |-> built[k]]]

\* The response of the root handler: the iframe page.
IframePage(request) ==
  <<"<iframe src=\"">>
    \o StreamlitUrl \o (IF request.query # <<>> THEN <<"?">> \o request.query ELSE <<>>)
    \o <<"\" width=\"100%\" height=\"1000px\"></iframe>">>
RootResponse(request) ==
  [status |-> 200, content |-> IframePage(request),
   headers |-> ResponseHeaders(<<"text/html">>)]
MethodNotAllowed ==
  [status |-> 405, content |-> <<"{\"detail\":\"Method Not Allowed\"}">>,
   headers |-> ResponseHeaders(<<"application/json">>)]
NotFound ==
  [status |-> 404, content |-> <<"{\"detail\":\"Not Found\"}">>,
   headers |-> ResponseHeaders(<<"application/json">>)]

\* The app answers one HTTP request.
handle_request ==
  /\ pc = "idle"
  /\ \E request \in HttpRequests, chain \in UpstreamChains :
       LET route == Dispatch(request)
       IN /\ pc' = "returned"
          /\ op' = "http"
          /\ input' = request
          /\ requests' = IF route = "proxy"
                           THEN UpstreamRequests(UpstreamRequest(request), chain)
                           ELSE <<>>
          /\ responses' = IF route = "proxy" THEN chain ELSE <<>>
          /\ result' = <<CASE route = "proxy" -> ProxyResponse(chain[Len(chain)])
                           [] route = "root" -> RootResponse(request)
                           [] route = "405" -> MethodNotAllowed
                           [] OTHER -> NotFound>>
  /\ UNCHANGED <<error, start_at, all_worklogs, clientVars, serverVars, prev, saved,
                 appVars>>

ProxyInit ==
  /\ Init
  /\ args = BasicArgs
  /\ serverWorklogs = <<>>
ProxyNext ==
  \/ handle_request
  \/ Reset
ProxySpec == ProxyInit /\ [][ProxyNext]_vars

(***************************************************************************)
(* encode and decode of app.py. A string is the sequence of its code        *)
(* points, a byte string the sequence of its bytes; in a base64 text a      *)
(* character of the alphabet is its value 0..63 ("-" and "+" both 62, "_"   *)
(* and "/" both 63, as urlsafe_b64decode reads them), "=" is Pad and every  *)
(* other character is Junk.                                                 *)
(***************************************************************************)
Pad == 64
Junk == 65

\* s.encode(): UTF-8, which raises on a surrogate.
RECURSIVE Utf8Encode(_)
Utf8Encode(s) ==
  IF s = <<>> THEN [error |-> "", bytes |-> <<>>]
  ELSE LET c == Head(s)
           rest == Utf8Encode(Tail(s))
           own == IF c < 128 THEN <<c>>
                  ELSE IF c < 2048 THEN <<192 + (c \div 64), 128 + (c % 64)>>
                  ELSE <<224 + (c \div 4096), 128 + ((c \div 64) % 64), 128 + (c % 64)>>
       IN IF c >= 55296 /\ c <= 57343 THEN [error |-> "UnicodeEncodeError", bytes |-> <<>>]
          ELSE IF rest.error # "" THEN rest
          ELSE [error |-> "", bytes |-> own \o rest.bytes]
\* bytes.decode(): UTF-8, which raises on a malformed sequence.
RECURSIVE Utf8Decode(_)
Utf8Decode(bytes) ==
  IF bytes = <<>> THEN [error |-> "", s |-> <<>>]
  ELSE LET b == bytes[1]
           cont(i) == i <= Len(bytes) /\ bytes[i] >= 128 /\ bytes[i] < 192
           n == IF b < 128 THEN 1
                ELSE IF b >= 194 /\ b < 224 /\ cont(2) THEN 2
                ELSE IF /\ b >= 224 /\ b < 240 /\ cont(2) /\ cont(3)
                        /\ (b = 224 => bytes[2] >= 160)
                        /\ (b = 237 => bytes[2] < 160) THEN 3
                ELSE 0
           c == IF n = 1 THEN b
                ELSE IF n = 2 THEN (b - 192) * 64 + (bytes[2] - 128)
                ELSE IF n = 3
                  THEN (b - 224) * 4096 + (bytes[2] - 128) * 64 + (bytes[3] - 128)
                ELSE 0
       IN IF n = 0 THEN [error |-> "UnicodeDecodeError", s |-> <<>>]
          ELSE LET rest == Utf8Decode(SubSeq(bytes, n + 1, Len(bytes)))
               IN IF rest.error # "" THEN rest
                  ELSE [error |-> "", s |-> <<c>> \o rest.s]

\* An encoding that leaves the padding out.
RECURSIVE B64EncodeNoPad(_)
B64EncodeNoPad(bytes) ==
  IF bytes = <<>> THEN <<>>
  ELSE IF Len(bytes) = 1
    THEN <<bytes[1] \div 4, (bytes[1] % 4) * 16>>
  ELSE IF Len(bytes) = 2
    THEN <<bytes[1] \div 4, (bytes[1] % 4) * 16 + (bytes[2] \div 16), (bytes[2] % 16) * 4>>
  ELSE <<bytes[1] \div 4, (bytes[1] % 4) * 16 + (bytes[2] \div 16),
         (bytes[2] % 16) * 4 + (bytes[3] \div 64), bytes[3] % 64>>
         \o B64EncodeNoPad(SubSeq(bytes, 4, Len(bytes)))
\* base64.urlsafe_b64encode: three bytes give four characters, the last group is
\* padded with "=".
RECURSIVE B64Encode(_)
B64Encode(bytes) ==
  IF bytes = <<>> THEN <<>>
  ELSE IF Len(bytes) = 1
    THEN <<bytes[1] \div 4, (bytes[1] % 4) * 16, Pad, Pad>>
  ELSE IF Len(bytes) = 2
    THEN <<bytes[1] \div 4, (bytes[1] % 4) * 16 + (bytes[2] \div 16),
           (bytes[2] % 16) * 4, Pad>>
  ELSE <<bytes[1] \div 4, (bytes[1] % 4) * 16 + (bytes[2] \div 16),
         (bytes[2] % 16) * 4 + (bytes[3] \div 64), bytes[3] % 64>>
         \o B64Encode(SubSeq(bytes, 4, Len(bytes)))
\* base64.urlsafe_b64decode (binascii.a2b_base64, not strict): characters outside
\* the alphabet are skipped, a "=" ends the text once it completes a group that
\* holds two characters or more, and a text that ends inside a group raises.
RECURSIVE A2B(_, _, _, _, _, _)
A2B(text, i, quad, left, pads, out) ==
  IF i > Len(text)
    THEN IF quad = 0 THEN [error |-> "", bytes |-> out]
         ELSE [error |-> "binascii.Error", bytes |-> <<>>]
  ELSE LET c == text[i]
       IN IF c = Pad
            THEN IF quad >= 2 /\ quad + pads + 1 >= 4 THEN [error |-> "", bytes |-> out]
                 ELSE A2B(text, i + 1, quad, left,
                          IF quad >= 2 THEN pads + 1 ELSE pads, out)
          ELSE IF c = Junk THEN A2B(text, i + 1, quad, left, pads, out)
          ELSE IF quad = 0 THEN A2B(text, i + 1, 1, c, 0, out)
          ELSE IF quad = 1
            THEN A2B(text, i + 1, 2, c % 16, 0, Append(out, left * 4 + (c \div 16)))
          ELSE IF quad = 2
            THEN A2B(text, i + 1, 3, c % 4, 0, Append(out, left * 16 + (c \div 4)))
          ELSE A2B(text, i + 1, 0, 0, 0, Append(out, left * 64 + c))
B64Decode(text) == A2B(text, 1, 0, 0, 0, <<>>)

\* encode(s): the exception it raises ("" for none) and its value.
Encode(s) ==
  LET utf8 == Utf8Encode(s)
  IN IF utf8.error # "" THEN [error |-> utf8.error, value |-> <<>>]
     ELSE [error |-> "", value |-> B64Encode(utf8.bytes)]
\* decode(s): whatever raises inside the try block gives "".
Decode(text) ==
  LET raw == B64Decode(text)
  IN IF raw.error # "" THEN <<>>
     ELSE IF Utf8Decode(raw.bytes).error # "" THEN <<>>
     ELSE Utf8Decode(raw.bytes).s

\* The strings encoded: letters, a space, "?" (which brings the last character of
\* the alphabet), a two-byte and a three-byte character, and a lone surrogate.
StrChars == {97, 32, 63, 233, 8364, 55296}
Strings == Sequences(StrChars, MaxStr)
\* The texts decoded: characters of the alphabet, "=", and a character outside it.
RawChars == {24, 16, 63, 48, Pad, Junk}
RawTexts == Sequences(RawChars, MaxRaw)

\* Nobody has opened the app yet.
AppUnused == runs = <<>> /\ issueWorklogs = NoLoad.truth
\* encode(s), and decode of what it gives.
round_trip ==
  /\ pc = "idle"
  /\ AppUnused
  /\ \E s \in Strings :
       LET encoded == Encode(s)
       IN /\ pc' = IF encoded.error # "" THEN "raised" ELSE "returned"
          /\ op' = "encode"
          /\ input' = s
          /\ requests' = IF encoded.error # "" THEN <<>> ELSE <<encoded.value>>
          /\ result' = IF encoded.error # "" THEN <<>> ELSE <<Decode(encoded.value)>>
          /\ error' = [type |-> encoded.error, status |-> 0, msg |-> ""]
  /\ UNCHANGED <<responses, start_at, all_worklogs, clientVars, serverVars, prev, saved,
                 appVars>>

\* decode(text) of any text.
decode_text ==
  /\ pc = "idle"
  /\ AppUnused
  /\ \E text \in RawTexts :
       /\ pc' = "returned"
       /\ op' = "decode"
       /\ input' = text
       /\ result' = <<Decode(text)>>
  /\ UNCHANGED <<error, requests, responses, start_at, all_worklogs, clientVars,
                 serverVars, prev, saved, appVars>>

(***************************************************************************)
(* The app: load_all_worklogs, and the pages that cache its table in the    *)
(* session. One action is one user event and the run of the script that     *)
(* follows it.                                                              *)
(***************************************************************************)
Pages == {"Dashboard", "Issues", "Worklogs", "Reports", "AI Assistant"}
NoWorklogsFound == "No worklogs found."
NoWorklogsAvailable == "No Jira worklogs available for analysis."
DataFetchError == "Data Fetch Error"
LoginFailed == "Login Failed"
FillInAllFields == "Please fill in all fields."

\* The arguments of JiraClient(base_url, email, api_token), as strings of code points.
Client(u, e, t) == [base_url |-> u, email |-> e, api_token |-> t]
\* The accounts of the Jira server: "h" is the site; Alice is "a" with token "???",
\* Bob is "b" with token "é".
Alice == Client(<<104>>, <<97>>, <<63, 63, 63>>)
Bob == Client(<<104>>, <<98>>, <<233>>)
Accounts == {Alice, Bob}
DisplayName(c) == IF c = Alice THEN "Alice" ELSE "Bob"

\* get_myself() of a client of credentials c: only an account gets a profile; me is
\* what the network and the server make of the call ("ok", "nokey" for a profile
\* without displayName, "raise"). The value is what me["displayName"] evaluates to.
Myself(c, me) ==
  IF c \in Accounts /\ me = "ok" THEN [returned |-> TRUE, named |-> TRUE, name |-> DisplayName(c)]
  ELSE IF c \in Accounts /\ me = "nokey" THEN [returned |-> TRUE, named |-> FALSE, name |-> ""]
  ELSE [returned |-> FALSE, named |-> FALSE, name |-> ""]
\* A login that takes any returned profile for a success.
LoggedInAnyProfile(c, me) == Myself(c, me).returned
\* Whether the try block of a login reaches its session update.
LoggedIn(c, me) == Myself(c, me).named
MyselfOutcomes == {"ok", "nokey", "raise"}

\* A call of a client operation made by a run of the script.
Call(name, c, ok) == [op |-> name, client |-> c, ok |-> ok]

\* str.strip(): the spaces at both ends go.
RECURSIVE LStrip(_)
LStrip(s) == IF s # <<>> /\ Head(s) = 32 THEN LStrip(Tail(s)) ELSE s
RECURSIVE RStripSpaces(_)
RStripSpaces(s) ==
  IF s # <<>> /\ s[Len(s)] = 32 THEN RStripSpaces(SubSeq(s, 1, Len(s) - 1)) ELSE s
Strip(s) == RStripSpaces(LStrip(s))

\* The query parameters of the page: a function of the keys present.
CredKeys == {"base_url", "email", "token"}
Field(c, k) == IF k = "base_url" THEN c.base_url
               ELSE IF k = "email" THEN c.email ELSE c.api_token
\* The query parameters a login writes for the credentials c.
ParamsOf(c) == [k \in CredKeys |-> Encode(Field(c, k)).value]
\* query_params.update(new): the keys of new are set, the others stay.
Updated(p, new) ==
  [k \in DOMAIN p \cup DOMAIN new |-> IF k \in DOMAIN new THEN new[k] ELSE p[k]]

\* The tampered query parameters: "Y" and "YQ" (both end inside a group), "Y*Q=="
\* (the "*" is outside the alphabet) and "_w==" (the byte 0xFF).
Tampered ==
  {[key |-> "base_url", text |-> <<24>>], [key |-> "email", text |-> <<24, 16>>],
   [key |-> "email", text |-> <<24, Junk, 16, Pad, Pad>>],
   [key |-> "token", text |-> <<63, 48, Pad, Pad>>]}
\* The query parameters of a URL somebody opens: none, one only, those of an
\* account, those of an account with a wrong token, and tampered ones.
ParamInputs ==
  {EmptyParams, [k \in {"email"} |-> Encode(Alice.email).value]}
    \cup {ParamsOf(c) : c \in Accounts \cup {Client(Alice.base_url, Alice.email, Bob.api_token)}}
    \cup {[ParamsOf(Alice) EXCEPT ![t.key] = t.text] : t \in Tampered}
\* What somebody types in the login form: the credentials of an account, the same
\* between spaces, a wrong token, an empty field, a field of spaces only.
LoginInputs ==
  Accounts
    \cup {Client(<<32, 104>>, <<97, 32>>, <<32, 63, 63, 63, 32>>),
          Client(Alice.base_url, Alice.email, Bob.api_token),
          Client(Alice.base_url, <<>>, Alice.api_token),
          Client(Alice.base_url, <<32>>, Alice.api_token)}

\* The rows of the worklogs of issues 1..n, when the server holds truth.
RECURSIVE RowsOf(_, _)
RowsOf(truth, n) ==
  IF n = 0 THEN <<>>
  ELSE RowsOf(truth, n - 1)
         \o [i \in 1..truth[ServerIssues[n]] |-> [Issue |-> ServerIssues[n], Worklog |-> i]]

\* The rows load_all_worklogs has collected when its try block ends: failAt = 0 is
\* a get_my_issues that raises, failAt = i a get_worklogs that raises for issue i,
\* and a larger failAt is a run without exception.
LoadedRows(failAt) ==
  IF failAt = 0 THEN <<>>
  ELSE RowsOf(issueWorklogs, Min(failAt - 1, Len(ServerIssues)))
\* load_all_worklogs(): the exception is caught and reported, the table returned.
LoadAllWorklogs(failAt) ==
  [failed |-> failAt <= Len(ServerIssues), rows |-> LoadedRows(failAt)]
\* The calls load_all_worklogs makes on the client c.
LoadCalls(c, failAt) ==
  <<Call("get_my_issues", c, failAt # 0)>>
    \o [i \in 1..Min(failAt, Len(ServerIssues)) |-> Call("get_worklogs", c, i # failAt)]
\* The outcomes of the fetches of one load.
FailAts == 0..(Len(ServerIssues) + 1)

\* What get_my_issues and get_projects return to the client c.
IssuesOf(c) == [i \in 1..Len(ServerIssues) |-> [key |-> ServerIssues[i], assignee |-> c.email]]
ProjectsList == <<[key |-> "PROJ", name |-> "Project"]>>

\* The events of a run: the user's click, with what the forms hold.
NoEvent == [kind |-> "none"]
\* What the network and the server make of the calls of one event: me for
\* get_myself, failAt for the fetches of load_all_worklogs, call for the call the
\* page makes while it renders, pressed for the call of the pressed button.
Outcomes(mes, failAts, calls, presses) ==
  [me : mes, failAt : failAts, call : calls, pressed : presses]
\* The outcomes of a login: the fetches of the Dashboard follow a get_myself that
\* gave a profile with its displayName.
LoginOutcomes ==
  Outcomes({"ok"}, FailAts, {FALSE}, {FALSE})
    \cup Outcomes({"nokey", "raise"}, {0}, {FALSE}, {FALSE})

\* The session's keys when none is set.
Cleared == [k \in {} |-> FALSE]
\* The routing gate: the page is rendered for a logged-in session only.
GateOpen(s) == TRUE
Gate(s) == s.logged_in

\* The page of the script, for a session past the gate: the session it leaves, the
\* calls it makes, the messages it shows and the load it ran (<<>> for none).
PageRun(s, ev, o) ==
  LET c == s.client[1]
      pressed(b) == ev.kind = "button" /\ ev.button = b
  IN IF s.client = <<>>
       THEN \* client is None: load_all_worklogs catches the AttributeError, the
            \* other pages end on it.
            IF s.page \in {"Dashboard", "AI Assistant"} /\ s.all_worklogs = <<>>
              THEN [s |-> [s EXCEPT !.all_worklogs = << <<>> >>], calls |-> <<>>,
                    shown |-> {DataFetchError}, load |-> <<>>]
              ELSE [s |-> s, calls |-> <<>>, shown |-> {}, load |-> <<>>]
     ELSE IF s.page \in {"Dashboard", "AI Assistant"}
       THEN LET loads == s.all_worklogs = <<>>
                load == LoadAllWorklogs(o.failAt)
                table == IF loads THEN <<load.rows>> ELSE s.all_worklogs
                empty == IF s.page = "Dashboard" THEN NoWorklogsFound
                         ELSE NoWorklogsAvailable
            IN [s |-> [s EXCEPT !.all_worklogs = table],
                calls |-> IF loads THEN LoadCalls(c, o.failAt) ELSE <<>>,
                shown |-> (IF loads /\ load.failed THEN {DataFetchError} ELSE {})
                            \cup (IF table[1] = <<>> THEN {empty} ELSE {}),
                load |-> IF loads
                           THEN <<[failed |-> load.failed, truth |-> issueWorklogs]>>
                         ELSE <<>>]
     ELSE IF s.page = "Issues"
       THEN LET fetches == s.projects = <<>>
                fetched == ~fetches \/ o.call
                creates == fetched /\ pressed("Create Issue")
            IN [s |-> IF fetches /\ o.call THEN [s EXCEPT !.projects = <<ProjectsList>>]
                      ELSE s,
                calls |-> (IF fetches THEN <<Call("get_projects", c, o.call)>> ELSE <<>>)
                            \o (IF creates THEN <<Call("create_issue", c, o.pressed)>>
                                ELSE <<>>),
                shown |-> {}, load |-> <<>>]
     ELSE IF s.page = "Worklogs"
       THEN LET refreshes == pressed("Refresh My Issues")
                submits == pressed("Submit") /\ s.issues # <<>>
            IN [s |-> IF refreshes /\ o.pressed THEN [s EXCEPT !.issues = IssuesOf(c)]
                      ELSE s,
                calls |-> IF refreshes THEN <<Call("get_my_issues", c, o.pressed)>>
                          ELSE IF submits THEN <<Call("add_worklog", c, o.pressed)>>
                          ELSE <<>>,
                shown |-> {}, load |-> <<>>]
     ELSE [s |-> s, calls |-> <<>>, shown |-> {}, load |-> <<>>]

\* What a failed auto-login leaves of the query parameters p, were it to keep them.
KeptAfterFailure(p) == p
\* query_params.clear() of the except block of the auto-login.
AfterFailedAutoLogin(p) == EmptyParams
\* What Logout leaves of the query parameters p, were it to keep them.
KeptAfterLogout(p) == p
\* query_params.clear() of Logout.
AfterLogout(p) == EmptyParams

\* The session defaults, written when the session holds no logged_in key.
Defaults(s0) == IF "logged_in" \in DOMAIN s0 THEN s0 ELSE InitSession

\* The auto-login of a run that starts with the session s1 and the query
\* parameters p0: the session and the parameters it leaves, and the call it made.
AutoLogin(s1, p0, o) ==
  IF s1.logged_in \/ ~(CredKeys \subseteq DOMAIN p0)
    THEN [s |-> s1, p |-> p0, calls |-> <<>>, auto |-> "none", me |-> "none"]
  ELSE LET decoded == Client(Decode(p0["base_url"]), Decode(p0["email"]),
                             Decode(p0["token"]))
           me == Myself(decoded, o.me)
       IN IF LoggedIn(decoded, o.me)
            THEN [s |-> [s1 EXCEPT !.client = <<decoded>>, !.logged_in = TRUE,
                                   !.user_name = me.name],
                  p |-> p0, calls |-> <<Call("get_myself", decoded, TRUE)>>,
                  auto |-> "ok", me |-> "named"]
          ELSE [s |-> s1, p |-> AfterFailedAutoLogin(p0),
                calls |-> <<Call("get_myself", decoded, me.returned)>>,
                auto |-> "failed", me |-> IF me.returned THEN "unnamed" ELSE "raised"]

\* The sidebar, after the auto-login a: the login form and its button for a session
\* that is not logged in, the page buttons and Logout for one that is.
Sidebar(a, ev, o) ==
  LET same == [s |-> a.s, p |-> a.p, calls |-> a.calls, auto |-> a.auto, me |-> a.me,
               login |-> "none", shown |-> {}, reruns |-> FALSE]
      typed == Client(Strip(ev.typed.base_url), Strip(ev.typed.email),
                      Strip(ev.typed.api_token))
      me == Myself(typed, o.me)
  IN IF ~a.s.logged_in
       THEN IF ev.kind # "login" THEN same
            ELSE IF \/ ev.typed.base_url = <<>>
                    \/ ev.typed.email = <<>>
                    \/ ev.typed.api_token = <<>>
              THEN [same EXCEPT !.login = "incomplete", !.shown = {FillInAllFields}]
            ELSE IF LoggedIn(typed, o.me)
              THEN [same EXCEPT
                      !.s = [a.s EXCEPT !.client = <<typed>>, !.logged_in = TRUE,
                                        !.user_name = me.name],
                      !.p = Updated(a.p, ParamsOf(typed)),
                      !.calls = Append(a.calls, Call("get_myself", typed, TRUE)),
                      !.me = "named", !.login = "ok", !.reruns = TRUE]
            ELSE [same EXCEPT
                    !.calls = Append(a.calls, Call("get_myself", typed, me.returned)),
                    !.me = IF me.returned THEN "unnamed" ELSE "raised",
                    !.login = "failed", !.shown = {LoginFailed}]
     ELSE IF ev.kind = "page"
       THEN [same EXCEPT !.s = [a.s EXCEPT !.page = ev.page], !.reruns = TRUE]
     ELSE IF ev.kind = "logout"
       THEN [same EXCEPT !.s = Cleared, !.p = AfterLogout(a.p), !.reruns = TRUE]
     ELSE same

\* A run that ends before the pages.
NoPage(s) == [s |-> s, calls |-> <<>>, shown |-> {}, load |-> <<>>]
\* What a run leaves, and what it did: side is the sidebar's outcome, page the
\* page's, passes whether the run went past the gate.
Result(p0, ev, side, page, passes) ==
  [session |-> page.s,
   params |-> side.p,
   reruns |-> side.reruns,
   shown |-> side.shown \cup page.shown,
   load |-> page.load,
   run |-> [event |-> ev.kind,
            params |-> p0,
            me |-> side.me,
            auto |-> side.auto,
            login |-> side.login,
            calls |-> side.calls \o page.calls,
            gate |-> IF side.reruns THEN "rerun" ELSE IF passes THEN "passed"
                     ELSE "stopped",
            logged_in |-> ~side.reruns /\ side.s.logged_in,
            page |-> IF passes THEN side.s.page ELSE ""]]

\* One run of the script on the session s0 and the query parameters p0, for the
\* event ev: the session defaults, the auto-login, the sidebar, the gate, the page.
\* The value is the set of the run's one outcome.
ScriptRun(s0, p0, ev, o) ==
  UNION {UNION {{Result(p0, ev, side, page, ~side.reruns /\ Gate(side.s)) :
                   page \in {IF ~side.reruns /\ Gate(side.s)
                               THEN PageRun(side.s, ev, o)
                             ELSE NoPage(side.s)}} :
                  side \in {Sidebar(a, ev, o)}} :
           a \in {AutoLogin(Defaults(s0), p0, o)}}

\* The event ev on the session s and the query parameters p: the run of the script
\* that handles it and, when that run asks for one, the rerun.
Handle(s, p, ev, o) ==
  \E first \in ScriptRun(s, p, ev, o) :
    \E last \in (IF first.reruns
                   THEN ScriptRun(first.session, first.params, NoEvent, o)
                 ELSE {first}) :
      /\ session' = last.session
      /\ query_params' = last.params
      /\ shown' = last.shown
      /\ lastLoad' = IF last.load # <<>> THEN last.load[1] ELSE lastLoad
      /\ runs' = IF first.reruns THEN <<first.run, last.run>> ELSE <<first.run>>

AppIdle == pc = "idle"

\* Somebody opens the app's URL in a new browser session.
open_url ==
  /\ AppIdle
  /\ \E p \in ParamInputs \cup {query_params},
        o \in LoginOutcomes :
       Handle(Cleared, p, NoEvent, o)
  /\ UNCHANGED <<issueWorklogs, clientVars, serverVars, callVars, prev, saved>>

\* The Login button of the sidebar.
login ==
  /\ AppIdle
  /\ ~session.logged_in
  /\ \E typed \in LoginInputs, o \in LoginOutcomes :
       Handle(session, query_params, [kind |-> "login", typed |-> typed], o)
  /\ UNCHANGED <<issueWorklogs, clientVars, serverVars, callVars, prev, saved>>

\* A page button of the sidebar.
navigate ==
  /\ AppIdle
  /\ session.logged_in
  /\ \E p \in Pages, o \in Outcomes({"raise"}, FailAts, BOOLEAN, {FALSE}) :
       Handle(session, query_params, [kind |-> "page", page |-> p], o)
  /\ UNCHANGED <<issueWorklogs, clientVars, serverVars, callVars, prev, saved>>

\* The Logout button of the sidebar.
logout ==
  /\ AppIdle
  /\ session.logged_in
  /\ \E o \in Outcomes(MyselfOutcomes, {0}, {FALSE}, {FALSE}) :
       Handle(session, query_params, [kind |-> "logout"], o)
  /\ UNCHANGED <<issueWorklogs, clientVars, serverVars, callVars, prev, saved>>

\* A button of the page shown.
PageButtons(s) ==
  IF s.page = "Issues" THEN {"Create Issue"}
  ELSE IF s.page = "Worklogs"
    THEN {"Refresh My Issues"} \cup (IF s.issues # <<>> THEN {"Submit"} ELSE {})
  ELSE {}
press ==
  /\ AppIdle
  /\ session.logged_in
  /\ \E b \in PageButtons(session), o \in Outcomes({"raise"}, {0}, BOOLEAN, BOOLEAN) :
       Handle(session, query_params, [kind |-> "button", button |-> b], o)
  /\ UNCHANGED <<issueWorklogs, clientVars, serverVars, callVars, prev, saved>>

\* Somebody logs work on an issue of the user.
ServerLogsWork ==
  /\ AppIdle
  /\ \E key \in Issues :
       /\ issueWorklogs[key] < MaxIssueLogs
       /\ issueWorklogs' = [issueWorklogs EXCEPT ![key] = @ + 1]
  /\ UNCHANGED <<session, query_params, runs, shown, lastLoad, clientVars, serverVars,
                 callVars, prev, saved>>

AppInit ==
  /\ Init
  /\ args = BasicArgs
  /\ serverWorklogs = <<>>
AppNext ==
  \/ open_url
  \/ login
  \/ navigate
  \/ logout
  \/ press
  \/ ServerLogsWork
  \/ round_trip
  \/ decode_text
AppSpec == AppInit /\ [][AppNext]_vars

\* Two threads share one client: each makes calls of get_myself and get_worklogs,
\* and the scheduler switches between them at any request.
ConcInit ==
  /\ Init
  /\ args = BasicArgs
  /\ serverCap = PageSize
ConcNext ==
  \/ get_myself
  \/ get_worklogs_call
  \/ get_worklogs_page
  \/ ServerAddWorklog
  \/ Reset
  \/ Switch
ConcSpec == ConcInit /\ [][ConcNext]_vars

\* The client against a server that may fall silent.
SilentSpec == SilentInit /\ [][Next]_vars

(***************************************************************************)
(* Vocabulary of the properties.                                            *)
(***************************************************************************)
\* An HTTP success: a response, of status 2xx.
Success(resp) == resp.status \in 200..299
CeilDiv(a, b) == (a + b - 1) \div b
SingleOps ==
  {"get_myself", "get_projects", "search_issues", "get_my_issues", "create_issue",
   "add_worklog", "update_worklog", "delete_worklog"}
SequenceOps == {"search_issues", "get_my_issues", "get_projects", "get_worklogs"}
Finished == pc \in {"returned", "raised"}

\* Response i of the call is the page [startAt, startAt + 100) that request i asks
\* for, of the n worklogs the server holds, with total = n.
FullPage(i, n) ==
  /\ Success(responses[i])
  /\ "total" \in DOMAIN responses[i].json
  /\ responses[i].json.total = n
  /\ responses[i].json.worklogs =
       SubSeq(serverWorklogs, requests[i].params.startAt + 1,
              Min(n, requests[i].params.startAt + PageSize))
FullPages(n) ==
  /\ Len(requests) = Len(responses)
  /\ \A i \in 1..Len(responses) : FullPage(i, n)

\* C1: for an issue of N > 100 worklogs whose server answers every request with the
\* page [startAt, startAt + 100) and total = N, get_worklogs returns exactly the N
\* worklogs, each once and in server order, after exactly ceil(N / 100) requests.
C1_FullPagination ==
  LET n == Len(serverWorklogs)
  IN (op = "get_worklogs" /\ n > PageSize /\ FullPages(n)) =>
       /\ pc # "raised"
       /\ pc = "returned" =>
            /\ result = <<serverWorklogs>>
            /\ Len(requests) = CeilDiv(n, PageSize)
            /\ \A i \in 1..Len(requests) :
                 /\ requests[i].method = "GET"
                 /\ requests[i].params.startAt = (i - 1) * PageSize
       /\ pc = "paging" =>
            /\ Len(requests) < CeilDiv(n, PageSize)
            /\ all_worklogs = SubSeq(serverWorklogs, 1, Len(requests) * PageSize)
C1_Witness ==
  /\ op = "get_worklogs" /\ pc = "returned"
  /\ Len(serverWorklogs) > 2 * PageSize
  /\ FullPages(Len(serverWorklogs))
  /\ Len(requests) = 3
  /\ Len(result[1]) = Len(serverWorklogs)

\* C2: get_worklogs on an issue with 0 worklogs (the answer has total = 0 or no
\* total) returns an empty sequence after exactly one request.
C2_EmptyIssue ==
  (/\ op = "get_worklogs"
   /\ Len(responses) >= 1
   /\ Len(serverWorklogs) = 0
   /\ Success(responses[1])) =>
     /\ pc = "returned"
     /\ result = << <<>> >>
     /\ Len(requests) = 1
C2_WitnessNoTotal ==
  /\ op = "get_worklogs" /\ pc = "returned"
  /\ Len(serverWorklogs) = 0
  /\ Len(requests) = 1
  /\ Success(responses[1])
  /\ "total" \notin DOMAIN responses[1].json
  /\ result = << <<>> >>

\* Every response of the call is a success that reports the same total t.
SameTotal(t) ==
  \A i \in 1..Len(responses) :
    /\ Success(responses[i])
    /\ "total" \in DOMAIN responses[i].json
    /\ responses[i].json.total = t
\* The loop's position while every answer so far succeeded with one total.
LoopInvariant ==
  (op = "get_worklogs" /\ Len(responses) >= 1 /\ SameTotal(responses[1].json.total)) =>
    LET t == responses[1].json.total
        k == Len(responses)
    IN /\ pc \in {"paging", "returned"}
       /\ \A i \in 1..k : requests[i].params.startAt = (i - 1) * PageSize
       /\ \A i \in 1..(k - 1) : (i - 1) * PageSize + PageSize < t
       /\ pc = "paging" => start_at = k * PageSize /\ (k - 1) * PageSize + PageSize < t
       /\ pc = "returned" => start_at = (k - 1) * PageSize /\ start_at + PageSize >= t

\* C3: while the server reports one total and every request succeeds, start_at is 0
\* at the first request and grows by exactly 100 per iteration, the loop exits at
\* the first page with start_at + 100 >= total, and the loop always ends.
C3_Termination ==
  /\ [](op = "get_worklogs" /\ pc = "paging" /\ Len(responses) = 0 => start_at = 0)
  /\ []LoopInvariant
  /\ (pc = "paging") ~> (pc # "paging")
C3_Witness ==
  /\ op = "get_worklogs" /\ pc = "returned"
  /\ Len(responses) = 3
  /\ SameTotal(responses[1].json.total)
  /\ start_at = 2 * PageSize

\* C4: an operation that returns a sequence returns only if every response it
\* received was a success (2xx), and raises, returning nothing, if any request failed.
C4_NoMaskedFailure ==
  (op \in SequenceOps /\ Len(responses) >= 1) =>
    /\ pc = "returned" => \A i \in 1..Len(responses) : Success(responses[i])
    /\ (\E i \in 1..Len(responses) : ~Success(responses[i])) =>
         pc = "raised" /\ result = <<>>

\* The error kind the taxonomy gives a status.
ErrorClass(status) ==
  IF status \in {401, 403} THEN "AuthError"
  ELSE IF status = 404 THEN "NotFoundError"
  ELSE IF status \in {400, 422} THEN "ValidationError"
  ELSE IF status = 429 THEN "RateLimitError"
  ELSE "ApiError"

\* C5: every non-2xx response is turned into a failure whose kind is the class of
\* its status; no non-2xx response, 3xx included, passes as success.
C5_ClassifiedErrors ==
  (op = "_raise" /\ ~Success(responses[1])) =>
    /\ pc = "raised"
    /\ error.type = ErrorClass(responses[1].status)

\* The server's messages that the text s holds: s itself, and for the text of an
\* error body every message of that body.
FieldMessages(b) ==
  IF b.kind = "dict" /\ "errors" \in DOMAIN b.json
    THEN {b.json.errors[f] : f \in DOMAIN b.json.errors} ELSE {}
ListMessages(b) ==
  IF b.kind = "dict" /\ "errorMessages" \in DOMAIN b.json
    THEN {b.json.errorMessages[i] : i \in 1..Len(b.json.errorMessages)} ELSE {}
Mentions(s) ==
  {s} \cup UNION {FieldMessages(b) \cup ListMessages(b) : b \in {x \in ErrBodies : x.text = s}}

\* C6: for every shape of error body _raise raises exactly one "Jira API Error
\* <status>" exception, whose message is the server's message when the body has
\* one and the raw body otherwise, and holds the server's field-level messages.
C6_ServerMessageCarried ==
  (op = "_raise" /\ ~Ok(responses[1])) =>
    /\ pc = "raised"
    /\ error.type = "Exception"
    /\ error.status = responses[1].status
    /\ ListMessages(responses[1]) = {} => error.msg = responses[1].text
    /\ ListMessages(responses[1]) # {} => error.msg \in ListMessages(responses[1])
    /\ FieldMessages(responses[1]) \subseteq Mentions(error.msg)

Bearer(h) == "Authorization" \in DOMAIN h
AuthMode(h, a) ==
  /\ ~(Bearer(h) /\ a # <<>>)
  /\ Truthy(args.jwt_token) =>
       Bearer(h) /\ h.Authorization = <<"JWT", args.jwt_token>> /\ a = <<>>
  /\ ~Truthy(args.jwt_token) =>
       /\ ~Bearer(h)
       /\ a # <<>> <=> (Truthy(args.email) /\ Truthy(args.api_token))
       /\ a # <<>> => a = <<args.email, args.api_token>>
C8_OneAuthMode ==
  /\ AuthMode(headers, auth)
  /\ \A i \in 1..Len(requests) : AuthMode(requests[i].headers, requests[i].auth)
C8_Witness ==
  /\ Truthy(args.jwt_token) /\ Truthy(args.email) /\ Truthy(args.api_token)
  /\ Len(requests) = 1
  /\ Bearer(requests[1].headers)
  /\ requests[1].auth = <<>>

\* round(h * 3600), a half rounded away from zero, of the rational h >= 0.
RoundHalfUp(h) == (2 * h[1] * SecondsPerHour + h[2]) \div (2 * h[2])

\* C9: update_worklog sends timeSpentSeconds = round(hours * 3600), a half rounded
\* away from zero.
C9_RoundedSeconds ==
  (op = "update_worklog" /\ Len(requests) = 1) =>
    requests[1].json.timeSpentSeconds = RoundHalfUp(input.hours)

UnnamedEpic ==
  /\ op = "create_issue" /\ Finished
  /\ input.issue_type = "Epic"
  /\ ~Truthy(input.epic_name)

\* C10 as claimed: create_issue of an Epic without an epic name fails with a
\* validation error before any request is made.
C10_FailFast ==
  UnnamedEpic => /\ Len(requests) = 0
                 /\ pc = "raised"
                 /\ error.type = "ValidationError"

\* C10 as amended: create_issue of an Epic without an epic name validates nothing
\* itself: it sends exactly one POST to the issue endpoint, whose fields carry no
\* epic-name field, and it raises only if that request or the decoding of its
\* answer fails.
C10_ServerDelegated ==
  UnnamedEpic =>
    /\ Len(requests) = 1
    /\ requests[1].method = "POST"
    /\ requests[1].url = base_url \o <<"/", "rest", "/", "api", "/", "3", "/", "issue">>
    /\ "customfield_10011" \notin DOMAIN requests[1].json.fields
    /\ pc = "raised" <=> (~Ok(responses[1]) \/ responses[1].status = 0
                          \/ responses[1].kind \notin {"dict", "list"})
    /\ pc = "raised" => error.type # "ValidationError"
C10_Witness ==
  /\ UnnamedEpic
  /\ pc = "raised"
  /\ Len(requests) = 1
  /\ responses[1].status = 400
  /\ EpicNameRequired \in Mentions(error.msg)

\* The text of a rich-text field is a string (None is not).
IsString(x) == x # NoneVal
\* d is a document of exactly one paragraph holding exactly one text run of a string.
IsOneRunDocument(d) ==
  /\ DOMAIN d = {"type", "version", "content"}
  /\ d.type = "doc"
  /\ Len(d.content) = 1
  /\ d.content[1].type = "paragraph"
  /\ Len(d.content[1].content) = 1
  /\ d.content[1].content[1].type = "text"
  /\ IsString(d.content[1].content[1].text)

\* C11: every rich-text field the client sends (description of create_issue,
\* comment of add_worklog and update_worklog) is a document of exactly one paragraph
\* holding exactly one text run whose text is a string, for every input, a None or
\* empty description or comment included.
C11_RichTextDocuments ==
  \A i \in 1..Len(requests) :
    /\ op = "create_issue" => IsOneRunDocument(requests[i].json.fields.description)
    /\ (op \in {"add_worklog", "update_worklog"} /\ "comment" \in DOMAIN requests[i].json) =>
         IsOneRunDocument(requests[i].json.comment)

\* C16: search_issues sends exactly one POST carrying the caller's JQL and
\* maxResults and returns the answer's issues array unchanged, or an empty sequence
\* when the answer has no issues key; the fields sent are the five default ones
\* exactly when the caller gives none, and the caller's otherwise; get_my_issues
\* without JQL searches "assignee = currentUser() ORDER BY updated DESC".
C16_Search ==
  (op \in {"search_issues", "get_my_issues"} /\ Finished) =>
    /\ Len(requests) = 1
    /\ requests[1].method = "POST"
    /\ requests[1].json.maxResults = input.max_results
    /\ op = "search_issues" =>
         /\ requests[1].json.jql = input.jql
         /\ (input.fields = <<>>) <=>
              (requests[1].json.fields =
                 <<"summary", "project", "issuetype", "assignee", "status">>)
         /\ input.fields # <<>> => requests[1].json.fields = input.fields
    /\ op = "get_my_issues" =>
         /\ requests[1].json.fields =
              <<"summary", "project", "issuetype", "assignee", "status">>
         /\ requests[1].json.jql =
              IF input.jql \in {NoneVal, ""}
                THEN "assignee = currentUser() ORDER BY updated DESC"
                ELSE input.jql
    /\ pc = "returned" =>
         /\ "issues" \in DOMAIN responses[1].json => result = <<responses[1].json.issues>>
         /\ "issues" \notin DOMAIN responses[1].json => result = << <<>> >>
C16_Witness ==
  /\ op = "get_my_issues" /\ pc = "returned"
  /\ input.jql = NoneVal
  /\ requests[1].json.jql = DefaultJql
  /\ result = <<ServerIssues>>
C16_WitnessNoKey ==
  /\ op = "search_issues" /\ pc = "returned"
  /\ input.fields # <<>>
  /\ Success(responses[1])
  /\ "issues" \notin DOMAIN responses[1].json

\* C19: get_worklogs returns every worklog of the issue exactly once however many
\* worklogs the server puts in a page: with pages shorter than the 100 asked for and
\* one total, the result still holds all the worklogs.
C19_AnyPageLength ==
  (/\ op = "get_worklogs" /\ pc = "returned"
   /\ SameTotal(Len(serverWorklogs))) =>
     result = <<serverWorklogs>>

EndsWithSlash(s) == s # <<>> /\ s[Len(s)] = "/"

\* C15: construction strips the trailing slash of the base URL: the stored base_url
\* never ends with "/", normalising it again changes nothing, a URL without a
\* trailing slash is stored as given, and every request URL is the stored base_url
\* followed by a path that begins with exactly one "/".
C15_BaseUrlNormalised ==
  /\ ~EndsWithSlash(base_url)
  /\ RStrip(base_url) = base_url
  /\ ~EndsWithSlash(args.base_url) => base_url = args.base_url
  /\ Len(base_url) <= Len(args.base_url)
  /\ base_url = SubSeq(args.base_url, 1, Len(base_url))
  /\ \A i \in (Len(base_url) + 1)..Len(args.base_url) : args.base_url[i] = "/"
  /\ \A i \in 1..Len(requests) :
       LET url == requests[i].url
       IN /\ Len(url) >= Len(base_url) + 2
          /\ SubSeq(url, 1, Len(base_url)) = base_url
          /\ url[Len(base_url) + 1] = "/"
          /\ url[Len(base_url) + 2] = "rest"
C15_Witness ==
  /\ Len(args.base_url) >= 2 + Len(Host)
  /\ args.base_url[Len(args.base_url)] = "/"
  /\ args.base_url[Len(args.base_url) - 1] = "/"
  /\ base_url = Host
  /\ Len(requests) = 1

\* The call is delete_worklog, made right after a delete_worklog of the same issue
\* and id that the server answered with 204.
SecondDelete ==
  /\ op = "delete_worklog" /\ Finished
  /\ prev.op = "delete_worklog" /\ prev.input = input /\ prev.status = 204

\* C14: a delete_worklog answered with 204 returns after one DELETE request; the same
\* call made again right after sends one DELETE request and, unless the request
\* fails otherwise (no response, or a proxy's error), raises with status 404: it
\* neither returns nor raises anything else.
C14_DeleteTwice ==
  /\ (/\ op = "delete_worklog" /\ Finished /\ responses[1].status = 204) =>
       /\ pc = "returned"
       /\ Len(requests) = 1 /\ requests[1].method = "DELETE"
  /\ SecondDelete => prev.pc = "returned"
  /\ SecondDelete =>
       /\ Len(requests) = 1 /\ requests[1].method = "DELETE"
       /\ responses[1].status # 204
       /\ responses[1] \notin OpFailures =>
            /\ pc = "raised"
            /\ error.type = "Exception" /\ error.status = 404
C14_Witness ==
  SecondDelete /\ pc = "raised" /\ error.status = 404 /\ responses[1] \notin OpFailures

\* C18: a call that waits for an answer that never comes sent its request with a
\* timeout, so the wait ends.
C18_BoundedWait ==
  pc = "waiting" => ~Waits(requests[Len(requests)])

\* The worklogs of answers 1..n, one page after the other.
RECURSIVE Received(_, _)
Received(resps, n) ==
  IF n = 0 THEN <<>>
  ELSE Received(resps, n - 1) \o Get(resps[n].json, "worklogs", <<>>)

\* What a call f does when it runs alone: every request carries the configuration
\* of the client, a call other than get_worklogs makes one request, request i of
\* get_worklogs asks for the page at (i - 1) * 100, the loop has gone on after
\* every answer but the last, and the result is the concatenation of the pages.
RunsAsAlone(f) ==
  /\ \A i \in 1..Len(f.requests) :
       /\ f.requests[i].headers = InitHeaders(args)
       /\ f.requests[i].auth = InitAuth(args)
       /\ f.requests[i].verify = args.verify_ssl
       /\ SubSeq(f.requests[i].url, 1, Len(RStrip(args.base_url))) = RStrip(args.base_url)
  /\ f.op = "get_myself" =>
       /\ Len(f.requests) = 1 /\ Len(f.responses) = 1
       /\ f.pc = "returned" => f.result = <<f.responses[1].json>>
  /\ f.op = "get_worklogs" =>
       /\ Len(f.requests) = Len(f.responses)
       /\ \A i \in 1..Len(f.requests) :
            /\ f.requests[i].method = "GET"
            /\ f.requests[i].params = [startAt |-> (i - 1) * PageSize,
                                       maxResults |-> PageSize]
       /\ \A i \in 1..(Len(f.responses) - 1) :
            /\ PageError(f.responses[i]) = NoError
            /\ ~LoopDone((i - 1) * PageSize, f.responses[i].json)
       /\ f.pc = "paging" =>
            /\ f.start_at = Len(f.requests) * PageSize
            /\ f.all_worklogs = Received(f.responses, Len(f.responses))
       /\ f.pc = "returned" =>
            /\ LoopDone((Len(f.responses) - 1) * PageSize, f.responses[Len(f.responses)].json)
            /\ f.result = <<Received(f.responses, Len(f.responses))>>
       /\ f.pc = "raised" => f.error = PageError(f.responses[Len(f.responses)])

\* C17: no operation changes base_url, headers, auth or verify_ssl, and with two
\* threads interleaved on one client each call sends the requests and gives the
\* result it gives when it runs alone.
C17_Stateless ==
  /\ base_url = RStrip(args.base_url)
  /\ headers = InitHeaders(args)
  /\ auth = InitAuth(args)
  /\ verify_ssl = args.verify_ssl
  /\ RunsAsAlone(Frame)
  /\ RunsAsAlone(saved)
\* Both threads are inside get_worklogs, at different pages.
C17_Witness ==
  /\ pc = "paging" /\ saved.pc = "paging"
  /\ start_at = 2 * PageSize /\ saved.start_at = PageSize

\* The texts joined by single spaces, built from the last one backwards.
RECURSIVE Spaced(_)
Spaced(texts) ==
  IF texts = <<>> THEN <<>>
  ELSE IF Len(texts) = 1 THEN texts[1]
  ELSE Spaced(SubSeq(texts, 1, Len(texts) - 1)) \o <<" ">> \o texts[Len(texts)]
\* A text run: a record of type "text" with a string for text.
IsRun(v) ==
  /\ v.k = "dict" /\ {"type", "text"} \subseteq DOMAIN v.f
  /\ IsText(v.f.type) /\ v.f.text.k = "str"
HasList(v) == v.k = "dict" /\ "content" \in DOMAIN v.f /\ v.f.content.k = "list"
\* A document whose blocks each contain text runs only.
IsRunsDocument(d) ==
  /\ HasList(d)
  /\ \A i \in 1..Len(d.f.content.items) :
       LET block == d.f.content.items[i]
       IN /\ HasList(block)
          /\ \A j \in 1..Len(block.f.content.items) : IsRun(block.f.content.items[j])
\* The texts of the runs of blocks 1..n of such a document, in document order.
RECURSIVE RunsOf(_, _)
RunsOf(blocks, n) ==
  IF n = 0 THEN <<>>
  ELSE RunsOf(blocks, n - 1)
         \o [j \in 1..Len(blocks[n].f.content.items) |-> blocks[n].f.content.items[j].f.text.s]

\* C12: extract_comment of a document whose blocks each contain text runs returns
\* the texts of all the runs in document order joined by single spaces ("Hello
\* World" for the paragraphs "Hello" and "World"), and the empty string for None and
\* for any input that is not a dict.
C12_ExtractComment ==
  (op = "extract_comment" /\ Finished) =>
    /\ IsRunsDocument(input) =>
         /\ pc = "returned"
         /\ result = <<Spaced(RunsOf(input.f.content.items, Len(input.f.content.items)))>>
    /\ input = HelloWorld => result = <<<<"Hello", " ", "World">>>>
    /\ input.k # "dict" => pc = "returned" /\ result = <<<<>>>>
C12_Witness ==
  /\ op = "extract_comment" /\ pc = "returned"
  /\ IsRunsDocument(input)
  /\ Len(input.f.content.items) = 2
  /\ result = <<<<"Hello", " ", "World">>>>
C12_WitnessNone ==
  op = "extract_comment" /\ pc = "returned" /\ input = JNone /\ result = <<<<>>>>

\* Every text leaf of a tree, at any depth of its content arrays, in document order;
\* whatever is no record, no list or no string holds no text.
RECURSIVE Leaves(_)
Leaves(v) ==
  IF v.k # "dict" THEN <<>>
  ELSE IF IsText(DictGet(v, "type", JNone))
    THEN IF DictGet(v, "text", JNone).k = "str" THEN <<v.f.text.s>> ELSE <<>>
  ELSE LET content == DictGet(v, "content", JNone)
           LeavesOf[n \in 0..(IF content.k = "list" THEN Len(content.items) ELSE 0)] ==
             IF n = 0 THEN <<>> ELSE LeavesOf[n - 1] \o Leaves(content.items[n])
       IN IF content.k = "list" THEN LeavesOf[Len(content.items)] ELSE <<>>

\* C13: extract_comment never raises, and it returns every text leaf of the tree, at
\* any depth, joined by single spaces (the empty string when there is none).
C13_TotalAnyDepth ==
  (op = "extract_comment" /\ Finished) =>
    /\ pc = "returned"
    /\ result = <<Spaced(Leaves(input))>>

\* C20: the table cached in the session comes from a load in which every fetch
\* succeeded, so it holds every worklog the server held then, and "No worklogs
\* found." is shown only when the server confirmed that there were none.
C20_CacheFromFullLoad ==
  /\ session.all_worklogs # <<>> =>
       /\ ~lastLoad.failed
       /\ session.all_worklogs[1] = RowsOf(lastLoad.truth, Len(ServerIssues))
  /\ NoWorklogsFound \in shown =>
       /\ ~lastLoad.failed
       /\ \A key \in Issues : lastLoad.truth[key] = 0

\* The lower-cased question holds one of the words.
Mentioned(question, words) == \E word \in words : Contains(Lower(question), word)
Asked == op = "ask_ai" /\ pc = "returned"

\* C21: a question with "chart", "graph" or "bar" gets the project chart if it has
\* "project", else the author chart if it has "author" or "user", else the trend
\* chart if it has "date" or "trend", each without a language-model call; every
\* other question gets exactly one language-model call and no chart.
C21_Router ==
  Asked =>
    LET chart == Mentioned(input, {KwChart, KwGraph, KwBar})
        project == Mentioned(input, {KwProject})
        author == Mentioned(input, {KwAuthor, KwUser})
        date == Mentioned(input, {KwDate, KwTrend})
        out == result[1]
    IN /\ (chart /\ project) => out = [chart |-> ProjectChart, llm |-> <<>>]
       /\ (chart /\ ~project /\ author) => out = [chart |-> AuthorChart, llm |-> <<>>]
       /\ (chart /\ ~project /\ ~author /\ date) =>
            out = [chart |-> TrendChart, llm |-> <<>>]
       /\ (~chart \/ (~project /\ ~author /\ ~date)) =>
            /\ out.chart = NoChart
            /\ Len(out.llm) = 1
            /\ out.llm[1].question = input
\* A chart question that names the author before the project gets the project chart.
C21_Witness ==
  /\ Asked
  /\ input = SpaceJoin(<<KwGraph, <<"A", "u", "t", "h", "o", "r">>, KwProject>>)
  /\ result[1].chart = ProjectChart
\* A chart keyword without a dimension goes to the language model.
C21_WitnessFallThrough ==
  /\ Asked
  /\ Mentioned(input, {KwBar}) /\ ~Mentioned(input, {KwChart, KwGraph})
  /\ Len(result[1].llm) = 1

Answered == op = "http" /\ pc = "returned"

\* C22: no response of the proxy app carries an x-frame-options or a
\* content-security-policy header, whatever the request and whatever the upstream
\* answers, the error response for an unreachable upstream included.
C22_NoBlockingHeaders ==
  Answered => DOMAIN result[1].headers \cap BlockingHeaders = {}
\* The upstream sent both headers and the proxy handed its content on.
C22_Witness ==
  /\ Answered /\ Len(responses) = 1
  /\ BlockingHeaders \subseteq DOMAIN responses[1].headers
  /\ result[1].content = responses[1].content
\* The upstream could not be reached.
C22_WitnessError ==
  Answered /\ Len(responses) = 1 /\ responses[1] = ConnectError /\ result[1].status = 500

\* C23: GET "/" is answered by the root endpoint: the iframe page on the Streamlit
\* URL with the query string, and no upstream request.
C23_RootPage ==
  (Answered /\ input.method = "GET" /\ input.path = <<"/">>) =>
    /\ requests = <<>>
    /\ result[1].status = 200
    /\ result[1].content = IframePage(input)

\* C24: for every method, path, query string and body the proxy makes exactly one
\* upstream request, of the same method, path and query under the Streamlit URL,
\* body, and headers but host, and answers with the upstream's status and content.
C24_ForwardsAll ==
  (Answered /\ ~(input.method = "GET" /\ input.path = <<"/">>)) =>
    /\ Len(requests) = 1
    /\ requests[1].method = input.method
    /\ requests[1].url = StreamlitUrl \o input.path
                           \o (IF input.query # <<>> THEN <<"?">> \o input.query ELSE <<>>)
    /\ requests[1].content = input.body
    /\ requests[1].headers = Without(input.headers, "host")
    /\ responses[1] # ConnectError =>
         /\ result[1].status = responses[1].status
         /\ result[1].content = responses[1].content

\* C25: whenever the session is logged in, it holds a client on which get_myself
\* has succeeded, and user_name is the displayName that call returned: the client
\* is the one of an account, the name is the account's, and the run that logged
\* in, by the form or by the query parameters, made that call and got its answer.
LoggedInBy(run) == run.auto = "ok" \/ run.login = "ok"
C25_LoggedInClient ==
  /\ session.logged_in =>
       /\ session.client # <<>>
       /\ session.client[1] \in Accounts
       /\ session.user_name = DisplayName(session.client[1])
  /\ \A i \in 1..Len(runs) :
       LoggedInBy(runs[i]) =>
         /\ session.logged_in
         /\ \E j \in 1..Len(runs[i].calls) :
              runs[i].calls[j] = Call("get_myself", session.client[1], TRUE)
\* Bob has logged in with the form, and the rerun shows his Dashboard.
C25_Witness ==
  /\ session.logged_in
  /\ session.user_name = "Bob"
  /\ Len(runs) = 2
  /\ runs[1].login = "ok"
  /\ runs[2].page = "Dashboard"
\* Alice has been logged in from the query parameters of the URL.
C25_WitnessAuto ==
  /\ session.logged_in
  /\ session.client = <<Alice>>
  /\ runs[1].auto = "ok"

\* C26: a run of the script that finds the session not logged in at the routing
\* gate stops there: it renders no page, and the only client operation it has
\* called is get_myself (of a login that failed). The same holds for a run that
\* reruns before the gate, and a run goes past the gate only when logged in.
OnlyMyself(run) == \A j \in 1..Len(run.calls) : run.calls[j].op = "get_myself"
C26_GateStops ==
  \A i \in 1..Len(runs) :
    /\ runs[i].gate = "passed" => runs[i].logged_in
    /\ runs[i].gate # "passed" => runs[i].page = "" /\ OnlyMyself(runs[i])
\* A login has failed: the run has called get_myself and stopped at the gate.
C26_Witness ==
  /\ Len(runs) = 1
  /\ runs[1].gate = "stopped"
  /\ ~runs[1].logged_in
  /\ runs[1].login = "failed"
  /\ Len(runs[1].calls) = 1
\* A logged-in run past the gate has called create_issue.
C26_WitnessPassed ==
  /\ Len(runs) = 1
  /\ runs[1].gate = "passed"
  /\ \E j \in 1..Len(runs[1].calls) : runs[1].calls[j].op = "create_issue"

\* C27: after Logout the rerun finds the session at its defaults (logged_in False,
\* client None, page "Dashboard", all_worklogs None, issues empty, projects None)
\* and no query parameter, so it tries no auto-login, calls nothing and stops at
\* the gate; a session that is not logged in holds the defaults only, so whoever
\* logs in next starts without the caches of the previous user, and the issues a
\* logged-in session holds are those of its own client.
LoggedOut == runs # <<>> /\ runs[1].event = "logout"
C27_LogoutResets ==
  /\ LoggedOut =>
       /\ Len(runs) = 2
       /\ session = InitSession
       /\ query_params = EmptyParams
       /\ runs[2].auto = "none"
       /\ runs[2].calls = <<>>
       /\ runs[2].gate = "stopped"
  /\ ~session.logged_in => session = InitSession
  /\ session.logged_in =>
       \A i \in 1..Len(session.issues) :
         session.issues[i].assignee = session.client[1].email
\* Logout of a session that had loaded the worklogs of its user.
C27_Witness ==
  /\ LoggedOut
  /\ lastLoad # NoLoad
\* Bob is logged in and holds the issues he fetched.
C27_WitnessNextUser ==
  /\ session.logged_in
  /\ session.client = <<Bob>>
  /\ session.issues # <<>>

\* C28: a failed auto-login (a parameter that does not decode, a get_myself that
\* raises, a profile without displayName) leaves logged_in False and client None
\* and clears the query parameters, and a session that is not logged in never
\* holds the three parameters, so no later run retries it; a failed manual login,
\* and one with a field left empty, leaves the session state and the query
\* parameters as they were.
AutoLoginFailed == runs # <<>> /\ runs[1].auto = "failed"
C28_AfterFailedAutoLogin ==
  /\ AutoLoginFailed =>
       /\ ~session.logged_in
       /\ session.client = <<>>
       /\ query_params = EmptyParams
  /\ ~session.logged_in => ~(CredKeys \subseteq DOMAIN query_params)
C28_FailedManualLogin ==
  (runs' # <<>> /\ runs'[1].login \in {"failed", "incomplete"})
    => (session' = session /\ query_params' = query_params)
C28_FailedLogin == []C28_AfterFailedAutoLogin /\ [][C28_FailedManualLogin]_vars
\* The URL held a token that decodes to no text: the auto-login has failed and the
\* run has stopped at the gate.
C28_Witness ==
  /\ AutoLoginFailed
  /\ runs[1].event = "none"
  /\ runs[1].calls[1].client.api_token = <<>>
  /\ runs[1].gate = "stopped"
\* A manual login has failed in a session that holds one query parameter.
C28_WitnessManual ==
  /\ runs # <<>>
  /\ runs[1].login = "failed"
  /\ DOMAIN query_params = {"email"}
  /\ LoginFailed \in shown

\* C29, as stated: decode(encode(s)) = s for every string s; a login by the form
\* leaves the encodings of its credentials in the query parameters; a new session
\* opened with query parameters builds its client from their decodings and is
\* logged in exactly when get_myself succeeds for that client; and decode of a
\* text that is not the encoding of a string returns "" and does not raise.
NotJunk(c) == c # Junk
DecodingFails(text) ==
  \/ B64Decode(text).error # ""
  \/ Utf8Decode(B64Decode(text).bytes).error # ""
IsEncoding(text) == ~DecodingFails(text) /\ Encode(Decode(text)).value = text
Encodable(s) == \A i \in 1..Len(s) : s[i] < 55296 \/ s[i] > 57343
DecodedClient(p) == Client(Decode(p["base_url"]), Decode(p["email"]), Decode(p["token"]))
Stripped(typed) == Client(Strip(typed.base_url), Strip(typed.email), Strip(typed.api_token))
PersistedByLogin ==
  (runs # <<>> /\ runs[1].login = "ok") =>
    /\ CredKeys \subseteq DOMAIN query_params
    /\ \A k \in CredKeys :
         /\ query_params[k] = Encode(Field(session.client[1], k)).value
         /\ Decode(query_params[k]) = Field(session.client[1], k)
RebuiltFromParams(run) ==
  /\ run.calls # <<>>
  /\ run.calls[1].op = "get_myself"
  /\ run.calls[1].client = DecodedClient(run.params)
  /\ run.auto = "ok" => session.client = <<DecodedClient(run.params)>>
  /\ \A typed \in LoginInputs :
       run.params = ParamsOf(Stripped(typed)) => run.calls[1].client = Stripped(typed)
C29_RoundTrip ==
  /\ op = "encode" => pc = "returned" /\ result = <<input>>
  /\ op = "decode" =>
       /\ pc = "returned"
       /\ ~IsEncoding(input) => result = << <<>> >>
  /\ PersistedByLogin
  /\ \A i \in 1..Len(runs) :
       runs[i].auto # "none" =>
         /\ RebuiltFromParams(runs[i])
         /\ runs[i].auto = "ok" <=> runs[i].calls[1].ok

\* C29, amended: decode(encode(s)) = s for every string without a lone surrogate,
\* and encode raises UnicodeEncodeError for the others; decode never raises,
\* returns "" whenever the base64 or the UTF-8 decoding of its argument fails, and
\* ignores the characters outside the base64 alphabet, so that some texts that are
\* no encoding decode to a string; a login by the form leaves the encodings of its
\* credentials in the query parameters; a new session opened with query
\* parameters builds its client from their decodings, which are the credentials
\* of the login that wrote them, and is logged in exactly when get_myself returns
\* a profile with a displayName.
C29_RoundTripEncodable ==
  /\ op = "encode" =>
       IF Encodable(input)
         THEN pc = "returned" /\ result = <<input>> /\ IsEncoding(requests[1])
       ELSE pc = "raised" /\ error.type = "UnicodeEncodeError"
  /\ op = "decode" =>
       /\ pc = "returned"
       /\ DecodingFails(input) => result = << <<>> >>
       /\ result = <<Decode(SelectSeq(input, NotJunk))>>
  /\ PersistedByLogin
  /\ \A i \in 1..Len(runs) :
       runs[i].auto # "none" =>
         /\ RebuiltFromParams(runs[i])
         /\ runs[i].auto = "ok" <=> runs[i].me = "named"
\* "é€" has come back from its encoding.
C29_Witness ==
  /\ op = "encode"
  /\ input = <<233, 8364>>
  /\ result = <<input>>
\* A new session opened with the query parameters of Bob's login holds his client.
C29_WitnessSession ==
  /\ runs # <<>>
  /\ runs[1].event = "none"
  /\ runs[1].params = ParamsOf(Bob)
  /\ runs[1].auto = "ok"
  /\ session.client = <<Bob>>
\* "Y*Q==" is no encoding, and decode has made "a" of it.
C29_WitnessLenient ==
  /\ op = "decode"
  /\ input = <<24, Junk, 16, Pad, Pad>>
  /\ result = << <<97>> >>

====
